---- MODULE Spec2Model ----
(***************************************************************************)
(* A model of the RT-11 volume directory engine of rt11dir.cpp:            *)
(* readDirectory, splitDirectorySegment and copySingleToRt11, working on   *)
(* an image whose directory segments are kept word for word (512 words a   *)
(* segment, two 256-word blocks) and whose data blocks carry a tag that    *)
(* says who wrote them.  Every writeBlock of the code is one step, so      *)
(* every reachable state is a point at which the program can be            *)
(* interrupted.                                                            *)
(***************************************************************************)
EXTENDS Integers, Sequences, FiniteSets, TLC

(***************************************************************************)
(* Program constants                                                       *)
(***************************************************************************)
BLOCK_WORDS == 256
SEG_WORDS == 512
DIR_SEGMENT_BLOCKS == 2
E_TENT == 256
E_MPTY == 512
E_PERM == 1024
E_EOS == 2048
MAX_SEGMENTS == 31
DEFAULT_FIRST_DIR_BLOCK == 6
HEADER_WORDS == 5
BASE_ENTRY_WORDS == 7

(***************************************************************************)
(* Bounds of the model                                                     *)
(***************************************************************************)
\* copy-to operations in one run
MaxCopies == 2
\* largest host file, in blocks
MaxFileBlocks == 2
\* directory segments of the image (header word 0)
ImageSegments == 3
\* blocks of the data area of the image
DataBlocks == 14

(***************************************************************************)
(* Word arithmetic                                                         *)
(***************************************************************************)
U16(x) == x % 65536

\* w & b # 0 for a single-bit mask b
HasBit(w, b) == (w \div b) % 2 = 1

Max(a, b) == IF a >= b THEN a ELSE b

(***************************************************************************)
(* RAD50                                                                   *)
(***************************************************************************)
RAD50_TABLE ==
    << " ", "A", "B", "C", "D", "E", "F", "G", "H", "I",
       "J", "K", "L", "M", "N", "O", "P", "Q", "R", "S",
       "T", "U", "V", "W", "X", "Y", "Z",
       "$", ".", "%", "0", "1", "2", "3", "4", "5", "6", "7", "8", "9" >>

LowerCase == << "a", "b", "c", "d", "e", "f", "g", "h", "i", "j", "k", "l", "m",
                "n", "o", "p", "q", "r", "s", "t", "u", "v", "w", "x", "y", "z" >>

\* std::toupper in the C locale
ToUpper(c) ==
    IF \E k \in 1..26 : LowerCase[k] = c
    THEN RAD50_TABLE[(CHOOSE k \in 1..26 : LowerCase[k] = c) + 1]
    ELSE c

UpperStr(s) == [k \in 1..Len(s) |-> ToUpper(s[k])]

rad50Index(c) ==
    LET u == ToUpper(c)
    IN  IF \E k \in 0..39 : RAD50_TABLE[k + 1] = u
        THEN CHOOSE k \in 0..39 :
                 /\ RAD50_TABLE[k + 1] = u
                 /\ \A j \in 0..(k - 1) : RAD50_TABLE[j + 1] # u
        ELSE 0

CharAt(s, k) == IF Len(s) >= k THEN s[k] ELSE " "

encodeRad50(s3) ==
    U16(rad50Index(CharAt(s3, 1)) * 1600
        + rad50Index(CharAt(s3, 2)) * 40
        + rad50Index(CharAt(s3, 3)))

\* The table read of decodeRad50.  The images of this model hold name words
\* below 64000, for which the index stays within the table.
TableChar(k) == IF k < 40 THEN RAD50_TABLE[k + 1] ELSE "?"

NoSpaces(s) == SelectSeq(s, LAMBDA c : c # " ")

decodeRad50(w) ==
    NoSpaces(<< TableChar(w \div 1600),
                TableChar((w % 1600) \div 40),
                TableChar((w % 1600) % 40) >>)

Prefix(s, n) == IF Len(s) > n THEN SubSeq(s, 1, n) ELSE s

decodeFileName(name1, name2, ext) ==
    LET base == Prefix(decodeRad50(name1) \o decodeRad50(name2), 6)
        extension == Prefix(decodeRad50(ext), 3)
    IN  IF extension = << >> THEN base ELSE base \o << "." >> \o extension

\* position of the first '.', 0 when there is none
DotPos(s) ==
    IF \E k \in 1..Len(s) : s[k] = "."
    THEN CHOOSE k \in 1..Len(s) :
             s[k] = "." /\ \A j \in 1..(k - 1) : s[j] # "."
    ELSE 0

PadTo(s, n) == [k \in 1..n |-> CharAt(s, k)]

\* <<name1, name2, ext>>
encodeFileName(rtname) ==
    LET pos == DotPos(rtname)
        base0 == IF pos = 0 THEN rtname ELSE SubSeq(rtname, 1, pos - 1)
        ext0 == IF pos = 0 THEN << >> ELSE SubSeq(rtname, pos + 1, Len(rtname))
        base == PadTo(Prefix(base0, 6), 6)
        extension == PadTo(Prefix(ext0, 3), 3)
    IN  << encodeRad50(SubSeq(base, 1, 3)),
           encodeRad50(SubSeq(base, 4, 6)),
           encodeRad50(extension) >>

\* the name must have a base: the callers of this model pass one
normalizeRt11Name(name) ==
    LET pos == DotPos(name)
        base == IF pos = 0 THEN name ELSE SubSeq(name, 1, pos - 1)
        ext == IF pos = 0 THEN << >> ELSE SubSeq(name, pos + 1, Len(name))
        b == Prefix(UpperStr(base), 6)
        e == Prefix(UpperStr(ext), 3)
    IN  IF e = << >> THEN b ELSE b \o << "." >> \o e

iequals(a, b) == Len(a) = Len(b) /\ \A k \in 1..Len(a) : ToUpper(a[k]) = ToUpper(b[k])

(***************************************************************************)
(* Directory parsing                                                       *)
(***************************************************************************)
\* the home block's word 234, as getFirstDirectoryBlock reads it
getFirstDirectoryBlock(hw) == IF hw = 0 THEN DEFAULT_FIRST_DIR_BLOCK ELSE hw

\* a faulty block number: segments counted from 0
SegBlockOf_FromZero(fdb, s) == fdb + s * DIR_SEGMENT_BLOCKS

\* the first block of logical segment s
SegBlockOf(fdb, s) == fdb + (s - 1) * DIR_SEGMENT_BLOCKS

\* entryWordsSeg of a segment: 7 + extraBytes / 2
EntryWords(w) == U16(BASE_ENTRY_WORDS + w[3] \div 2)

\* the entry loops of the code stop at a sentinel, at a zero status word, or
\* when no whole entry fits any more
StopsAt(w, idx) == HasBit(w[idx], E_EOS) \/ w[idx] = 0

\* The word indices of the entries of a segment, in order (the entryIdx of
\* splitDirectorySegment, the wordIndex values of readDirectory).
RECURSIVE EntryIdxFrom(_, _)
EntryIdxFrom(w, idx) ==
    IF idx + EntryWords(w) > SEG_WORDS THEN << >>
    ELSE IF StopsAt(w, idx) THEN << >>
    ELSE << idx >> \o EntryIdxFrom(w, U16(idx + EntryWords(w)))

EntryIdx(w) == EntryIdxFrom(w, HEADER_WORDS)

RECURSIVE SumLen(_)
SumLen(es) == IF es = << >> THEN 0 ELSE es[1].lengthBlocks + SumLen(Tail(es))

\* one Rt11Entry, decoded at word idx of segment seg; off is
\* globalCumulativeOffset before it (32 bits wide in the code: at most 31
\* segments of at most 72 entries of at most 65535 blocks never wrap it)
DecodeEntry(w, seg, idx, dsb, off) ==
    [ name |-> decodeFileName(w[idx + 1], w[idx + 2], w[idx + 3]),
      startBlock |-> U16(dsb + off),
      lengthBlocks |-> w[idx + 4],
      status |-> w[idx],
      dateWord |-> w[idx + 6],
      tentative |-> HasBit(w[idx], E_TENT),
      empty |-> HasBit(w[idx], E_MPTY),
      permanent |-> HasBit(w[idx], E_PERM),
      eos |-> HasBit(w[idx], E_EOS),
      segNumber |-> seg,
      wordIndex |-> idx ]

\* the entries of one segment, the running offset carried along
RECURSIVE DecodeFrom(_, _, _, _, _)
DecodeFrom(w, seg, idx, dsb, off) ==
    IF idx + EntryWords(w) > SEG_WORDS THEN << >>
    ELSE IF StopsAt(w, idx) THEN << >>
    ELSE << DecodeEntry(w, seg, idx, dsb, off) >>
         \o DecodeFrom(w, seg, U16(idx + EntryWords(w)), dsb,
                       off + w[idx + 4])

\* totalSegments as readDirectory uses it
ClampSegments(n) == IF n = 0 \/ n > MAX_SEGMENTS THEN 1 ELSE n

\* The while loop of readDirectory: cur is currentSegNum, acc the entries so far.
RECURSIVE WalkChain(_, _, _, _, _, _, _)
WalkChain(d, fdb, totalBlocks, totalSegments, cur, visited, acc) ==
    IF cur = 0 THEN acc
    ELSE IF cur < 1 \/ cur > totalSegments THEN acc
    ELSE IF cur \in visited THEN acc
    ELSE IF SegBlockOf(fdb, cur) + 1 >= totalBlocks THEN acc
    ELSE WalkChain(d, fdb, totalBlocks, totalSegments, d[cur][1],
                   visited \cup {cur},
                   acc \o DecodeFrom(d[cur], cur, HEADER_WORDS, d[1][4], SumLen(acc)))

\* readDirectory on an image whose first directory block lies in the volume
readDirectory(d, hw, totalBlocks) ==
    WalkChain(d, getFirstDirectoryBlock(hw), totalBlocks,
              ClampSegments(d[1][0]), 1, {}, << >>)

\* The segments readDirectory decodes, in order.
RECURSIVE ChainFrom(_, _, _, _)
ChainFrom(d, totalSegments, cur, acc) ==
    IF cur = 0 \/ cur < 1 \/ cur > totalSegments THEN acc
    ELSE IF \E k \in 1..Len(acc) : acc[k] = cur THEN acc
    ELSE ChainFrom(d, totalSegments, d[cur][1], Append(acc, cur))

Chain(d) == ChainFrom(d, ClampSegments(d[1][0]), 1, << >>)

(***************************************************************************)
(* splitDirectorySegment: what it computes before its first write          *)
(***************************************************************************)
\* the chain walk of the split: the segments in use, and whether a link loops
RECURSIVE SplitWalk(_, _, _, _)
SplitWalk(d, totalSegments, cur, used) ==
    IF cur = 0 \/ cur < 1 \/ cur > totalSegments
    THEN [loop |-> FALSE, used |-> used]
    ELSE IF cur \in used THEN [loop |-> TRUE, used |-> used]
    ELSE SplitWalk(d, totalSegments, d[cur][1], used \cup {cur})

\* a faulty choice: the lowest segment number, whether the chain uses it or not
FirstUnused_Lowest(totalSegments, used) ==
    IF totalSegments >= 1 THEN 1 ELSE 0

\* the first unused segment number, 0 when every one is in the chain
FirstUnused(totalSegments, used) ==
    IF \E s \in 1..totalSegments : s \notin used
    THEN CHOOSE s \in 1..totalSegments :
             s \notin used /\ \A t \in 1..(s - 1) : t \in used
    ELSE 0

\* positions (0-based) of the Permanent or Tentative entries
MovablePositions(w, entryIdx) ==
    SelectSeq([k \in 1..Len(entryIdx) |-> k - 1],
              LAMBDA i : HasBit(w[entryIdx[i + 1]], E_PERM)
                         \/ HasBit(w[entryIdx[i + 1]], E_TENT))

\* the split position (0-based) among the entries
MidPos(w, entryIdx) ==
    LET n == Len(entryIdx)
        movable == MovablePositions(w, entryIdx)
        mid == IF movable # << >>
               THEN movable[Len(movable) \div 2 + 1]
               ELSE n \div 2
    IN  IF mid >= n - 1 THEN n \div 2 ELSE mid

\* a faulty old segment: the sentinel one entry after the split point
OldSegWords_SentinelLate(w, middleIdx, newSegNum) ==
    [j \in 0..(SEG_WORDS - 1) |->
        IF j = middleIdx + EntryWords(w) THEN E_EOS
        ELSE IF j = 1 THEN newSegNum
        ELSE w[j]]

\* a faulty old segment: left as it was read, neither cut nor linked
OldSegWords_Untouched(w, middleIdx, newSegNum) == w

\* the old segment as it is written back: sentinel at the split point, link
\* to the new segment
OldSegWords(w, middleIdx, newSegNum) ==
    [j \in 0..(SEG_WORDS - 1) |->
        IF j = middleIdx THEN E_EOS
        ELSE IF j = 1 THEN newSegNum
        ELSE w[j]]

\* how many entries the copy loop of the new segment moves
EntriesMoved(n, midPos, ew) ==
    LET fit == (SEG_WORDS - HEADER_WORDS) \div ew
    IN  IF n - midPos <= fit THEN n - midPos ELSE fit

\* the new segment: header of the split segment with its old link, the
\* entries from the split point on, then the sentinel
NewSegWords(w, entryIdx, midPos) ==
    LET ew == EntryWords(w)
        moved == EntriesMoved(Len(entryIdx), midPos, ew)
        newEosIdx == U16(HEADER_WORDS + moved * ew)
    IN  [j \in 0..(SEG_WORDS - 1) |->
            IF j < HEADER_WORDS THEN w[j]
            ELSE IF j < HEADER_WORDS + moved * ew
            THEN w[entryIdx[midPos + (j - HEADER_WORDS) \div ew + 1]
                   + ((j - HEADER_WORDS) % ew)]
            ELSE IF j = newEosIdx THEN E_EOS
            ELSE 0]

\* a faulty rewrite of segment 1: word 2 left as it was read
Seg1Rewrite_Stale(seg1Words, newHighest) == seg1Words

\* segment 1 as it is written back when highestInUse grows: the words read
\* at the start of the split, with word 2 replaced
Seg1Rewrite(seg1Words, newHighest) == [seg1Words EXCEPT ![2] = newHighest]

\* Everything splitDirectorySegment decides before it writes: the error it
\* throws, or the three buffers it is going to write.
SplitPlan(d, segToSplit) ==
    LET seg1Words == d[1]
        totalSegments == seg1Words[0]
    IN  IF totalSegments = 0 \/ totalSegments > MAX_SEGMENTS
        THEN [err |-> "InvalidSegmentCount"]
        ELSE
        LET wk == SplitWalk(d, totalSegments, 1, {})
            newSegNum == FirstUnused(totalSegments, wk.used)
        IN  IF wk.loop THEN [err |-> "DirectoryLoopDetected"]
            ELSE IF segToSplit < 1 \/ segToSplit > totalSegments
                    \/ segToSplit \notin wk.used
            THEN [err |-> "NotInChain"]
            ELSE IF newSegNum = 0 THEN [err |-> "DirectoryFull"]
            ELSE
            LET words == d[segToSplit]
                entryIdx == EntryIdx(words)
            IN  IF entryIdx = << >> THEN [err |-> "EmptySegment"]
                ELSE
                LET midPos == MidPos(words, entryIdx)
                    middleIdx == entryIdx[midPos + 1]
                    oldHighest == seg1Words[2]
                    newHighest == Max(oldHighest, newSegNum)
                IN  [ err |-> "none",
                      seg |-> segToSplit,
                      newSegNum |-> newSegNum,
                      midPos |-> midPos,
                      oldSegWords |-> OldSegWords(words, middleIdx, newSegNum),
                      newWords |-> NewSegWords(words, entryIdx, midPos),
                      rewrite1 |-> newHighest # oldHighest,
                      seg1Words |-> Seg1Rewrite(seg1Words, newHighest) ]

(***************************************************************************)
(* copySingleToRt11: what it computes between its writes                   *)
(***************************************************************************)
\* a faulty noReplace test: it looks at the Empty entries
AlreadyExists_AmongEmpty(entries, rtname) ==
    \E k \in 1..Len(entries) :
        entries[k].empty /\ iequals(entries[k].name, rtname)

\* the noReplace test
AlreadyExists(entries, rtname) ==
    \E k \in 1..Len(entries) :
        entries[k].permanent /\ iequals(entries[k].name, rtname)

Usable(e, blocksNeeded) ==
    e.empty /\ ~e.permanent /\ ~e.tentative /\ e.lengthBlocks >= blocksNeeded

\* a faulty search: the smallest entry that is large enough (best fit)
FindEmpty_BestFit(entries, blocksNeeded) ==
    IF \E k \in 1..Len(entries) : Usable(entries[k], blocksNeeded)
    THEN CHOOSE k \in 1..Len(entries) :
             /\ Usable(entries[k], blocksNeeded)
             /\ \A j \in 1..Len(entries) :
                    Usable(entries[j], blocksNeeded) =>
                        \/ entries[j].lengthBlocks > entries[k].lengthBlocks
                        \/ entries[j].lengthBlocks = entries[k].lengthBlocks /\ j >= k
    ELSE 0

\* first fit: the position in entries of the chosen Empty entry, 0 if none
FindEmpty(entries, blocksNeeded) ==
    IF \E k \in 1..Len(entries) : Usable(entries[k], blocksNeeded)
    THEN CHOOSE k \in 1..Len(entries) :
             /\ Usable(entries[k], blocksNeeded)
             /\ \A j \in 1..(k - 1) : ~Usable(entries[j], blocksNeeded)
    ELSE 0

\* the scan for the sentinel: the index it stops at
RECURSIVE ScanEos(_, _)
ScanEos(w, scanIdx) ==
    IF scanIdx + EntryWords(w) > SEG_WORDS THEN scanIdx
    ELSE IF StopsAt(w, scanIdx) THEN scanIdx
    ELSE ScanEos(w, U16(scanIdx + EntryWords(w)))

\* a faulty remainder: the whole length of the chosen entry
Remaining_Whole(w, idx, blocksNeeded) ==
    IF w[idx + 4] = blocksNeeded THEN 0 ELSE w[idx + 4]

Remaining(w, idx, blocksNeeded) == U16(w[idx + 4] - blocksNeeded)

\* a faulty pre-check: room for a remainder asked for even when there is none
NeedsSplit_Always(w, idx, blocksNeeded) ==
    U16(U16(idx + EntryWords(w)) + EntryWords(w) + EntryWords(w)) > SEG_WORDS

\* the pre-check that sends the operation to splitDirectorySegment
NeedsSplit(w, idx, blocksNeeded) ==
    /\ Remaining(w, idx, blocksNeeded) > 0
    /\ U16(U16(idx + EntryWords(w)) + EntryWords(w) + EntryWords(w)) > SEG_WORDS

\* the chosen entry made Permanent
ConvertEntry(w, idx, rtname, blocksNeeded, dateW) ==
    LET nm == encodeFileName(rtname)
    IN  [j \in 0..(SEG_WORDS - 1) |->
            IF j = idx THEN E_PERM
            ELSE IF j = idx + 1 THEN nm[1]
            ELSE IF j = idx + 2 THEN nm[2]
            ELSE IF j = idx + 3 THEN nm[3]
            ELSE IF j = idx + 4 THEN U16(blocksNeeded)
            ELSE IF j = idx + 5 THEN 0
            ELSE IF j = idx + 6 THEN dateW
            ELSE w[j]]

\* the entries from insertIdx up to the sentinel moved one entry up
ShiftEntries(w, insertIdx, eosIdx, ew) ==
    IF insertIdx < eosIdx
    THEN [j \in 0..(SEG_WORDS - 1) |->
            IF j >= insertIdx + ew /\ j <= eosIdx - 1 + ew THEN w[j - ew] ELSE w[j]]
    ELSE w

\* where the new sentinel goes
NewEosIdx(insertIdx, eosIdx, ew) == U16(insertIdx + ew)

\* the remainder entry and the sentinel put in
InsertRemainder(w, insertIdx, newEosIdx, remaining, ew) ==
    [j \in 0..(SEG_WORDS - 1) |->
        IF j = newEosIdx THEN E_EOS
        ELSE IF j > newEosIdx /\ j < newEosIdx + ew THEN 0
        ELSE IF j = insertIdx THEN E_MPTY
        ELSE IF j = insertIdx + 4 THEN remaining
        ELSE IF j > insertIdx /\ j <= insertIdx + 6 THEN 0
        ELSE w[j]]

\* every index the update writes lies in the segment
UpdateInBounds(w, idx, blocksNeeded) ==
    LET ew == EntryWords(w)
        insertIdx == U16(idx + ew)
        eosIdx == ScanEos(w, HEADER_WORDS)
    IN  /\ idx + 6 < SEG_WORDS
        /\ Remaining(w, idx, blocksNeeded) > 0 =>
              /\ insertIdx < eosIdx => eosIdx - 1 + ew < SEG_WORDS
              /\ NewEosIdx(insertIdx, eosIdx, ew) + ew - 1 < SEG_WORDS

\* the segment as the directory update leaves it in memory
UpdatedWords(w, idx, rtname, blocksNeeded, dateW) ==
    LET ew == EntryWords(w)
        remaining == Remaining(w, idx, blocksNeeded)
        eosIdx == ScanEos(w, HEADER_WORDS)
        insertIdx == U16(idx + ew)
        w1 == ConvertEntry(w, idx, rtname, blocksNeeded, dateW)
    IN  IF remaining > 0
        THEN InsertRemainder(ShiftEntries(w1, insertIdx, eosIdx, ew), insertIdx,
                             NewEosIdx(insertIdx, eosIdx, ew), remaining, ew)
        ELSE w1

\* writeBlock of one block (b = 0 or 1) of a segment buffer over the
\* segment's block pair
WriteSegBlock(cur, buf, b) ==
    [j \in 0..(SEG_WORDS - 1) |-> IF j \div BLOCK_WORDS = b THEN buf[j] ELSE cur[j]]

(***************************************************************************)
(* The images the runs start from                                          *)
(***************************************************************************)
\* extra bytes per entry of the images: none (entries of 7 words), or 152:
\* entries of 83 words, so that a segment holds five entries and a sentinel,
\* and the fourth entry lies across the boundary of the segment's two blocks
ImageExtraBytes == {0, 152}

\* word 234 of the home block: unset, or the block number itself
HomeWords == {0, DEFAULT_FIRST_DIR_BLOCK}

\* the system dates the runs draw from (6-Nov-2026)
SystemDates == {27862}

ZeroSeg == [j \in 0..(SEG_WORDS - 1) |-> 0]

P(n) == [kind |-> "P", len |-> n]
T(n) == [kind |-> "T", len |-> n]
E(n) == [kind |-> "E", len |-> n]

\* the entry lists a segment of an image can hold
Patterns ==
    << << E(4) >>,
       << E(2), P(1) >>,
       << P(1), P(1), P(1), P(1), E(3) >>,
       << P(1), E(1), E(1), E(1), E(3) >>,
       << P(1), T(1), P(1), E(3) >>,
       << P(1), P(1) >>,
       << P(1), P(1), P(1), P(1), E(2) >>,
       << P(1), P(1), E(1), E(1), E(1), E(3) >> >>

\* the file of slot m of segment s is named by the letter of s and the digit of m
FileNameOf(s, m) == << RAD50_TABLE[s + 1], RAD50_TABLE[31 + m] >>

\* word o of the entry e at slot m of segment s
EntryWordOf(e, s, m, o) ==
    IF o = 0 THEN (IF e.kind = "P" THEN E_PERM
                   ELSE IF e.kind = "T" THEN E_TENT ELSE E_MPTY)
    ELSE IF o \in 1..3 THEN (IF e.kind = "E" THEN 0
                             ELSE encodeFileName(FileNameOf(s, m))[o])
    ELSE IF o = 4 THEN e.len
    ELSE IF o = 6 THEN (IF e.kind = "E" THEN 0 ELSE 27862)
    ELSE 0

\* a well-formed segment: header, the entries of pat, a sentinel, zeros
SegmentOf(pat, s, link, highest, extraBytes, dsb) ==
    LET ew == BASE_ENTRY_WORDS + extraBytes \div 2
    IN  [j \in 0..(SEG_WORDS - 1) |->
            IF j = 0 THEN ImageSegments
            ELSE IF j = 1 THEN link
            ELSE IF j = 2 THEN highest
            ELSE IF j = 3 THEN extraBytes
            ELSE IF j = 4 THEN dsb
            ELSE LET m == (j - HEADER_WORDS) \div ew
                     o == (j - HEADER_WORDS) % ew
                 IN  IF m < Len(pat) THEN EntryWordOf(pat[m + 1], s, m, o)
                     ELSE IF m = Len(pat) /\ o = 0 THEN E_EOS
                     ELSE 0]

\* the chains of the images, with the patterns their segments draw from
ChainShapes ==
    { << 1 >>, << 1, 2 >>, << 1, 3 >> }

PatternsAt(chain, k) ==
    IF Len(chain) > 1 /\ k = 1 THEN {2, 3, 6} ELSE 1..Len(Patterns)

PosIn(chain, s) == IF \E k \in 1..Len(chain) : chain[k] = s
                   THEN CHOOSE k \in 1..Len(chain) : chain[k] = s
                   ELSE 0

ImageDataStart == DEFAULT_FIRST_DIR_BLOCK + ImageSegments * DIR_SEGMENT_BLOCKS

ImageOf(chain, pats, highest, extraBytes) ==
    [s \in 1..ImageSegments |->
        LET k == PosIn(chain, s)
        IN  IF k = 0 THEN ZeroSeg
            ELSE SegmentOf(Patterns[pats[k]], s,
                           IF k < Len(chain) THEN chain[k + 1] ELSE 0,
                           highest, extraBytes, ImageDataStart)]

\* highestInUse of an image: the highest segment of its chain, or a
\* higher number left by earlier use
HighestChoices(chain) ==
    { Max(chain[Len(chain)], 1), ImageSegments }

\* the tag of a data block: Free for a block no file has been written to,
\* Old for a block of a file of the image, WrittenBy(k) for a block written
\* by the k-th copy
Free == << >>
Old == << "image" >>
WrittenBy(k) == << "copy", k >>

\* the host files and options of a copy-to
NewName == << "n", "e", "w", ".", "t", "x", "t" >>
OldName == << "a", "0" >>
Requests ==
    { [name |-> NewName, blocks |-> b, noReplace |-> FALSE] : b \in 1..MaxFileBlocks }
    \cup { [name |-> OldName, blocks |-> 1, noReplace |-> TRUE] }

NoRequest == [name |-> << >>, blocks |-> 0, noReplace |-> FALSE]
NoEntry == DecodeEntry(ZeroSeg, 0, 0, 0, 0)
NoPlan == [err |-> "none", seg |-> 0, newSegNum |-> 0, midPos |-> 0,
           oldSegWords |-> ZeroSeg, newWords |-> ZeroSeg,
           rewrite1 |-> FALSE, seg1Words |-> ZeroSeg]

(***************************************************************************)
(* State                                                                   *)
(***************************************************************************)
VARIABLES
    homeWord,     \* word 234 of the home block
    totalBlocks,  \* blocks of the image file
    dir,          \* dir[s][j]: word j of the block pair of logical segment s
    data,         \* data[b]: the tag of data block b
    pc,           \* where the program stands
    req,          \* the arguments of the running copySingleToRt11
    dateW,        \* the date word of the running copy
    emptyEntry,   \* copySingleToRt11: the chosen entry
    written,      \* copySingleToRt11: data blocks written so far (i)
    segRead,      \* copySingleToRt11: the segment as read before the update
    words,        \* copySingleToRt11: the segment buffer to commit
    sp,           \* splitDirectorySegment: its buffers
    result,       \* how the last operation ended
    ncopies,      \* copy-to operations started
    nsplits,      \* splits completed by the running operation
    dir0,         \* the directory when the running operation started
    data0,        \* the data blocks when the running operation started
    pre,          \* the directory when the running split started
    rpc,          \* readDirectory on its own: where it stands
    rcur,         \* readDirectory: currentSegNum
    rvisited,     \* readDirectory: the segments marked in visitedSegments
    rentries,     \* readDirectory: the entries pushed so far
    rdecoded,     \* readDirectory: the segments decoded so far, in order
    rstop,        \* readDirectory: why the walk ended
    argv,         \* main: the arguments after the program name
    argi,         \* main: i, the argument the loop stands at
    opts,         \* main: the options gathered so far
    mpc,          \* main: where it stands
    exitCode,     \* main: the status returned
    called,       \* main: the operation it called, with the arguments passed
    reported,     \* main: the error it wrote to std::cerr
    input,        \* a function by itself: its argument
    output,       \* a function by itself: the value computed last
    fpc           \* a function by itself: what has been applied

vars == << homeWord, totalBlocks, dir, data, pc, req, dateW, emptyEntry, written,
           segRead, words, sp, result, ncopies, nsplits, dir0, data0, pre,
           rpc, rcur, rvisited, rentries, rdecoded, rstop,
           argv, argi, opts, mpc, exitCode, called, reported,
           input, output, fpc >>

mainVars == << argv, argi, opts, mpc, exitCode, called, reported >>

funVars == << input, output, fpc >>

readerVars == << rpc, rcur, rvisited, rentries, rdecoded, rstop >>

copyVars == << data, pc, req, dateW, emptyEntry, written, segRead, words, sp,
               result, ncopies, nsplits, dir0, data0, pre >>

\* no readDirectory of its own is running
ReaderIdle ==
    /\ rpc = "idle"
    /\ rcur = 0
    /\ rvisited = {}
    /\ rentries = << >>
    /\ rdecoded = << >>
    /\ rstop = "none"

\* the options of main before the first argument is looked at
NoOptions ==
    [ brief |-> FALSE, showEmpty |-> FALSE, doCopyFrom |-> FALSE,
      doCopyTo |-> FALSE, noReplace |-> FALSE, copyFromPattern |-> << >>,
      copyToFromPattern |-> << >>, toPath |-> << >>, optionalDateWord |-> 0 ]

NoCall == [fn |-> "none"]

\* main is not running
MainIdle ==
    /\ argv = << >>
    /\ argi = 0
    /\ opts = NoOptions
    /\ mpc = "idle"
    /\ exitCode = 0
    /\ called = NoCall
    /\ reported = "none"

\* no function is looked at by itself
FunIdle ==
    /\ input = << >>
    /\ output = << >>
    /\ fpc = "idle"

FirstDirBlock == getFirstDirectoryBlock(homeWord)
Entries == readDirectory(dir, homeWord, totalBlocks)

\* the data blocks of a fresh image: Old under its files, Free elsewhere
InitialData(d, hw, tb) ==
    LET es == readDirectory(d, hw, tb)
    IN  [b \in ImageDataStart..(tb - 1) |->
            IF \E k \in 1..Len(es) :
                   /\ ~es[k].empty
                   /\ b >= es[k].startBlock
                   /\ b < es[k].startBlock + es[k].lengthBlocks
            THEN Old ELSE Free]

\* an image of the model, no operation started on it
InitVolume ==
    /\ homeWord \in HomeWords
    /\ totalBlocks = ImageDataStart + DataBlocks
    /\ \E chain \in ChainShapes :
       \E pats \in [1..Len(chain) -> 1..Len(Patterns)] :
       \E highest \in HighestChoices(chain) :
       \E xb \in ImageExtraBytes :
          /\ \A k \in 1..Len(chain) : pats[k] \in PatternsAt(chain, k)
          /\ dir = ImageOf(chain, pats, highest, xb)
    /\ data = InitialData(dir, homeWord, totalBlocks)
    /\ pc = "idle"
    /\ req = NoRequest
    /\ dateW = 0
    /\ emptyEntry = NoEntry
    /\ written = 0
    /\ segRead = ZeroSeg
    /\ words = ZeroSeg
    /\ sp = NoPlan
    /\ result = "none"
    /\ ncopies = 0
    /\ nsplits = 0
    /\ dir0 = dir
    /\ data0 = data
    /\ pre = dir
    /\ ReaderIdle

Init ==
    /\ InitVolume
    /\ MainIdle
    /\ FunIdle

(***************************************************************************)
(* copySingleToRt11                                                        *)
(***************************************************************************)
\* copyToRt11 calls copySingleToRt11 for a host file
StartCopy(r, dw) ==
    /\ pc = "idle"
    /\ ncopies < MaxCopies
    /\ req' = r
    /\ dateW' = dw
    /\ ncopies' = ncopies + 1
    /\ nsplits' = 0
    /\ dir0' = dir
    /\ data0' = data
    /\ pc' = "enter"
    /\ result' = "running"
    /\ UNCHANGED << homeWord, totalBlocks, dir, data, emptyEntry, written,
                    segRead, words, sp, pre >>
    /\ UNCHANGED << readerVars, mainVars, funVars >>

CopyStart == \E r \in Requests : \E dw \in SystemDates : StartCopy(r, dw)

\* the operation ends: by return or by an exception that main reports
Finish(how) ==
    /\ pc' = "idle"
    /\ result' = how
    /\ emptyEntry' = NoEntry
    /\ written' = 0
    /\ segRead' = ZeroSeg
    /\ words' = ZeroSeg
    /\ sp' = NoPlan

\* from the entry of copySingleToRt11 to its first write: the directory is
\* read, the name looked up, the Empty entry chosen and its range checked
CopyEnter ==
    /\ pc = "enter"
    /\ LET rtname == normalizeRt11Name(req.name)
           entries == Entries
           k == FindEmpty(entries, req.blocks)
       IN  IF req.noReplace /\ AlreadyExists(entries, rtname)
           THEN Finish("skipped")
           ELSE IF k = 0 THEN Finish("NoSpace")
           ELSE IF entries[k].startBlock = 0
                   \/ entries[k].startBlock + req.blocks - 1 >= totalBlocks
           THEN Finish("InvalidRange")
           ELSE /\ emptyEntry' = entries[k]
                /\ written' = 0
                /\ pc' = "data"
                /\ UNCHANGED << segRead, words, sp, result >>
    /\ UNCHANGED << homeWord, totalBlocks, dir, data, req, dateW, ncopies,
                    nsplits, dir0, data0, pre >>
    /\ UNCHANGED << readerVars, mainVars, funVars >>

\* one writeBlock of the file's data
WriteData ==
    /\ pc = "data"
    /\ data' = [data EXCEPT ![emptyEntry.startBlock + written] = WrittenBy(ncopies)]
    /\ written' = written + 1
    /\ pc' = IF written + 1 = req.blocks THEN "update" ELSE "data"
    /\ UNCHANGED << homeWord, totalBlocks, dir, req, dateW, emptyEntry, segRead,
                    words, sp, result, ncopies, nsplits, dir0, data0, pre >>
    /\ UNCHANGED << readerVars, mainVars, funVars >>

\* the segment of the chosen entry is read and the update built in memory,
\* unless the pre-check asks for a split
BuildUpdate ==
    /\ pc = "update"
    /\ LET w == dir[emptyEntry.segNumber]
           idx == emptyEntry.wordIndex
       IN  IF w[idx + 4] < req.blocks
           THEN /\ Finish("InternalError")
                /\ UNCHANGED nsplits
           ELSE IF NeedsSplit(w, idx, req.blocks)
           THEN /\ pc' = "split"
                /\ UNCHANGED << emptyEntry, written, segRead, words, sp, result,
                                nsplits >>
           ELSE IF ~UpdateInBounds(w, idx, req.blocks)
           THEN /\ Finish("OutOfBounds")
                /\ UNCHANGED nsplits
           ELSE /\ segRead' = w
                /\ words' = UpdatedWords(w, idx, normalizeRt11Name(req.name),
                                         req.blocks, dateW)
                /\ pc' = "commit0"
                /\ UNCHANGED << emptyEntry, written, sp, result, nsplits >>
    /\ UNCHANGED << homeWord, totalBlocks, dir, data, req, dateW, ncopies,
                    dir0, data0, pre >>
    /\ UNCHANGED << readerVars, mainVars, funVars >>

\* a faulty commit: segBlock taken one segment too far
Commit0_NextSegment ==
    /\ pc = "commit0"
    /\ dir' = [dir EXCEPT ![(emptyEntry.segNumber % ImageSegments) + 1] =
                               WriteSegBlock(@, words, 0)]
    /\ pc' = "commit1"
    /\ UNCHANGED << homeWord, totalBlocks, data, req, dateW, emptyEntry, written,
                    segRead, words, sp, result, ncopies, nsplits, dir0, data0, pre >>
    /\ UNCHANGED << readerVars, mainVars, funVars >>

\* writeBlock(f, segBlock, buf0)
Commit0 ==
    /\ pc = "commit0"
    /\ dir' = [dir EXCEPT ![emptyEntry.segNumber] = WriteSegBlock(@, words, 0)]
    /\ pc' = "commit1"
    /\ UNCHANGED << homeWord, totalBlocks, data, req, dateW, emptyEntry, written,
                    segRead, words, sp, result, ncopies, nsplits, dir0, data0, pre >>
    /\ UNCHANGED << readerVars, mainVars, funVars >>

\* writeBlock(f, segBlock + 1, buf1), and the return
Commit1 ==
    /\ pc = "commit1"
    /\ dir' = [dir EXCEPT ![emptyEntry.segNumber] = WriteSegBlock(@, words, 1)]
    /\ pc' = "idle"
    /\ result' = "copied"
    /\ UNCHANGED << homeWord, totalBlocks, data, req, dateW, emptyEntry, written,
                    segRead, words, sp, ncopies, nsplits, dir0, data0, pre >>
    /\ UNCHANGED << readerVars, mainVars, funVars >>

(***************************************************************************)
(* splitDirectorySegment                                                   *)
(***************************************************************************)
\* a faulty start of the split: highestInUse of segment 1 written before the
\* checks are made
SplitEnter_WritesFirst ==
    /\ pc = "split"
    /\ LET plan == SplitPlan(dir, emptyEntry.segNumber)
       IN  IF plan.err # "none"
           THEN /\ Finish(plan.err)
                /\ dir' = [dir EXCEPT ![1] = Seg1Rewrite(@, U16(@[2] + 1))]
                /\ UNCHANGED pre
           ELSE /\ sp' = plan
                /\ pre' = dir
                /\ pc' = "old0"
                /\ UNCHANGED << dir, emptyEntry, written, segRead, words, result >>
    /\ UNCHANGED << homeWord, totalBlocks, data, req, dateW, ncopies,
                    nsplits, dir0, data0 >>
    /\ UNCHANGED << readerVars, mainVars, funVars >>

\* from the call to the first write: the chain is walked, the new segment
\* number and the split point chosen, the buffers built
SplitEnter ==
    /\ pc = "split"
    /\ LET plan == SplitPlan(dir, emptyEntry.segNumber)
       IN  IF plan.err # "none"
           THEN /\ Finish(plan.err)
                /\ UNCHANGED pre
           ELSE /\ sp' = plan
                /\ pre' = dir
                /\ pc' = "old0"
                /\ UNCHANGED << emptyEntry, written, segRead, words, result >>
    /\ UNCHANGED << homeWord, totalBlocks, dir, data, req, dateW, ncopies,
                    nsplits, dir0, data0 >>
    /\ UNCHANGED << readerVars, mainVars, funVars >>

SplitWrite(at, seg, buf, b, next) ==
    /\ pc = at
    /\ dir' = [dir EXCEPT ![seg] = WriteSegBlock(@, buf, b)]
    /\ pc' = next
    /\ UNCHANGED << homeWord, totalBlocks, data, req, dateW, emptyEntry, written,
                    segRead, words, sp, result, ncopies, nsplits, dir0, data0, pre >>
    /\ UNCHANGED << readerVars, mainVars, funVars >>

\* a faulty first write: the new segment's first block before the old segment's
SplitOld0_NewFirst == SplitWrite("old0", sp.newSegNum, sp.newWords, 0, "old1")

\* the two blocks of the old segment
SplitOld0 == SplitWrite("old0", sp.seg, sp.oldSegWords, 0, "old1")
SplitOld1 == SplitWrite("old1", sp.seg, sp.oldSegWords, 1, "new0")

\* the two blocks of the new segment
SplitNew0 == SplitWrite("new0", sp.newSegNum, sp.newWords, 0, "new1")
SplitNew1 ==
    SplitWrite("new1", sp.newSegNum, sp.newWords, 1,
               IF sp.rewrite1 THEN "one0" ELSE "retry")

\* the two blocks of segment 1, when highestInUse grows
SplitOne0 == SplitWrite("one0", 1, sp.seg1Words, 0, "one1")
SplitOne1 == SplitWrite("one1", 1, sp.seg1Words, 1, "retry")

\* splitDirectorySegment has returned: copySingleToRt11 calls itself
Retry ==
    /\ pc = "retry"
    /\ pc' = "enter"
    /\ nsplits' = nsplits + 1
    /\ emptyEntry' = NoEntry
    /\ written' = 0
    /\ UNCHANGED << homeWord, totalBlocks, dir, data, req, dateW, segRead, words,
                    sp, result, ncopies, dir0, data0, pre >>
    /\ UNCHANGED << readerVars, mainVars, funVars >>

Next ==
    \/ CopyStart
    \/ CopyEnter
    \/ WriteData
    \/ BuildUpdate
    \/ Commit0
    \/ Commit1
    \/ SplitEnter
    \/ SplitOld0
    \/ SplitOld1
    \/ SplitNew0
    \/ SplitNew1
    \/ SplitOne0
    \/ SplitOne1
    \/ Retry

Spec == Init /\ [][Next]_vars

\* the positions of the program
Positions ==
    {"idle", "enter", "data", "update", "commit0", "commit1", "split",
     "old0", "old1", "new0", "new1", "one0", "one1", "retry"}

\* the program moves on from position p
Leaves(p) == pc = p /\ pc' \in Positions \ {p}

\* copySingleToRt11 called once on the image
CallOnce == ncopies = 0 /\ CopyStart

NextCall ==
    \/ CallOnce
    \/ CopyEnter
    \/ WriteData
    \/ BuildUpdate
    \/ Commit0
    \/ Commit1
    \/ SplitEnter
    \/ SplitOld0
    \/ SplitOld1
    \/ SplitNew0
    \/ SplitNew1
    \/ SplitOne0
    \/ SplitOne1
    \/ Retry

\* One call, which keeps running once started, nothing suspends it: the loop
\* that writes the data takes its next turn, and at every other position,
\* where each step leads to another position, the step is taken.
SpecFair ==
    /\ Init
    /\ [][NextCall]_vars
    /\ WF_vars(WriteData)
    /\ \A p \in Positions \ {"idle", "data"} : WF_pc(Leaves(p))

TypeOK ==
    /\ pc \in {"idle", "enter", "data", "update", "commit0", "commit1", "split",
               "old0", "old1", "new0", "new1", "one0", "one1", "retry"}
    /\ \A s \in DOMAIN dir : \A j \in 0..(SEG_WORDS - 1) : dir[s][j] \in 0..65535

(***************************************************************************)
(* readDirectory and splitDirectorySegment by themselves, on images that   *)
(* need not be well formed                                                 *)
(***************************************************************************)
\* a file length that makes the running block offset pass 16 bits
BigLength == 40000

\* the block count of an image that holds its directory and its data
FullVolume == ImageDataStart + DataBlocks

\* the entries of segment s: none in the last segment number
ReadPattern(s, big) ==
    LET n == IF big THEN BigLength ELSE 1
    IN  IF s = ImageSegments THEN << >>
        ELSE IF s = 1 THEN << P(1), E(2) >>
        ELSE << P(n), T(n), E(3) >>

\* header fields: totalSegments, long files or not, extra bytes per entry
StandardHeader == [ts |-> ImageSegments, big |-> FALSE, xb |-> 0]
Headers ==
    { StandardHeader,
      [ts |-> ImageSegments, big |-> TRUE, xb |-> 0],
      [ts |-> 0, big |-> FALSE, xb |-> 0],
      [ts |-> MAX_SEGMENTS + 1, big |-> FALSE, xb |-> 0],
      [ts |-> ImageSegments - 1, big |-> FALSE, xb |-> 0],
      [ts |-> ImageSegments, big |-> FALSE, xb |-> 65535] }

\* word 234 of the home block and the block count of the image file: the
\* whole volume, and volumes that end in or before the directory
StandardVolume == [hw |-> 0, tb |-> FullVolume]
Volumes ==
    { StandardVolume,
      [hw |-> DEFAULT_FIRST_DIR_BLOCK + DIR_SEGMENT_BLOCKS, tb |-> FullVolume + DIR_SEGMENT_BLOCKS],
      [hw |-> FullVolume, tb |-> FullVolume],
      [hw |-> 0, tb |-> DEFAULT_FIRST_DIR_BLOCK],
      [hw |-> 0, tb |-> DEFAULT_FIRST_DIR_BLOCK + 1],
      [hw |-> 0, tb |-> DEFAULT_FIRST_DIR_BLOCK + DIR_SEGMENT_BLOCKS + 1],
      [hw |-> 0, tb |-> DEFAULT_FIRST_DIR_BLOCK + 2 * DIR_SEGMENT_BLOCKS] }

\* the segments the links lead to from segment cur, until a link leaves
\* 1..ImageSegments or comes back
RECURSIVE LinkedFrom(_, _, _)
LinkedFrom(links, cur, seen) ==
    IF cur \notin 1..ImageSegments \/ cur \in seen THEN seen
    ELSE LinkedFrom(links, links[cur], seen \cup {cur})

\* the next-segment link of every segment: any number up to one past the
\* last for the segments linked from segment 1, 0 for the others (no walk
\* reads their link)
Links ==
    { links \in [1..ImageSegments -> 0..(ImageSegments + 1)] :
          \A s \in 1..ImageSegments :
              s \notin LinkedFrom(links, 1, {}) => links[s] = 0 }

RawImage(links, h) ==
    [s \in 1..ImageSegments |->
        [SegmentOf(ReadPattern(s, h.big), s, links[s], 1, h.xb, ImageDataStart)
            EXCEPT ![0] = h.ts]]

InitImage ==
    /\ \E v \in Volumes : \E h \in Headers : \E links \in Links :
          /\ v = StandardVolume \/ h = StandardHeader
          /\ homeWord = v.hw
          /\ totalBlocks = v.tb
          /\ dir = RawImage(links, h)
    /\ data = [b \in ImageDataStart..(totalBlocks - 1) |-> Free]
    /\ pc = "idle"
    /\ req = NoRequest
    /\ dateW = 0
    /\ emptyEntry = NoEntry
    /\ written = 0
    /\ segRead = ZeroSeg
    /\ words = ZeroSeg
    /\ sp = NoPlan
    /\ result = "none"
    /\ ncopies = 0
    /\ nsplits = 0
    /\ dir0 = dir
    /\ data0 = data
    /\ pre = dir
    /\ ReaderIdle
    /\ MainIdle
    /\ FunIdle

\* readDirectory up to its loop: the home block word, the range check, the
\* two blocks of segment 1 read for the header
ReadStart ==
    /\ rpc = "idle"
    /\ IF FirstDirBlock >= totalBlocks
       THEN /\ rpc' = "error"
            /\ rstop' = "FirstDirBlockOutOfRange"
            /\ UNCHANGED rcur
       ELSE IF FirstDirBlock + 1 >= totalBlocks
       THEN /\ rpc' = "error"
            /\ rstop' = "ReadFailed"
            /\ UNCHANGED rcur
       ELSE /\ rpc' = "walk"
            /\ rcur' = 1
            /\ UNCHANGED rstop
    /\ rvisited' = {}
    /\ rentries' = << >>
    /\ rdecoded' = << >>
    /\ UNCHANGED << homeWord, totalBlocks, dir >>
    /\ UNCHANGED << copyVars, mainVars, funVars >>

\* the walk ends: readDirectory returns the entries it has
ReadEnd(why) ==
    /\ rpc' = "done"
    /\ rstop' = why
    /\ UNCHANGED << rcur, rentries, rdecoded >>

\* a faulty turn of the loop: the entries are dropped when the walk stops at
\* a bad link
ReadStep_DropOnStop ==
    /\ rpc = "walk"
    /\ LET totalSegments == ClampSegments(dir[1][0])
       IN  IF rcur = 0
           THEN ReadEnd("end") /\ UNCHANGED rvisited
           ELSE IF rcur < 1 \/ rcur > totalSegments \/ rcur \in rvisited
           THEN /\ rpc' = "done"
                /\ rstop' = IF rcur \in rvisited THEN "loop" ELSE "invalid"
                /\ rentries' = << >>
                /\ UNCHANGED << rcur, rdecoded, rvisited >>
           ELSE IF SegBlockOf(FirstDirBlock, rcur) + 1 >= totalBlocks
           THEN ReadEnd("bounds") /\ rvisited' = rvisited \cup {rcur}
           ELSE /\ rvisited' = rvisited \cup {rcur}
                /\ rentries' = rentries \o DecodeFrom(dir[rcur], rcur, HEADER_WORDS,
                                                     dir[1][4], SumLen(rentries))
                /\ rdecoded' = Append(rdecoded, rcur)
                /\ rcur' = dir[rcur][1]
                /\ UNCHANGED << rpc, rstop >>
    /\ UNCHANGED << homeWord, totalBlocks, dir >>
    /\ UNCHANGED << copyVars, mainVars, funVars >>

\* a faulty turn of the loop: no test of visitedSegments
ReadStep_NoVisitedTest ==
    /\ rpc = "walk"
    /\ LET totalSegments == ClampSegments(dir[1][0])
       IN  IF rcur = 0
           THEN ReadEnd("end") /\ UNCHANGED rvisited
           ELSE IF rcur < 1 \/ rcur > totalSegments
           THEN ReadEnd("invalid") /\ UNCHANGED rvisited
           ELSE IF SegBlockOf(FirstDirBlock, rcur) + 1 >= totalBlocks
           THEN ReadEnd("bounds") /\ rvisited' = rvisited \cup {rcur}
           ELSE /\ rvisited' = rvisited \cup {rcur}
                /\ rentries' = rentries \o DecodeFrom(dir[rcur], rcur, HEADER_WORDS,
                                                     dir[1][4], SumLen(rentries))
                /\ rdecoded' = Append(rdecoded, rcur)
                /\ rcur' = dir[rcur][1]
                /\ UNCHANGED << rpc, rstop >>
    /\ UNCHANGED << homeWord, totalBlocks, dir >>
    /\ UNCHANGED << copyVars, mainVars, funVars >>

\* one turn of the loop over the chain
ReadStep ==
    /\ rpc = "walk"
    /\ LET totalSegments == ClampSegments(dir[1][0])
       IN  IF rcur = 0
           THEN ReadEnd("end") /\ UNCHANGED rvisited
           ELSE IF rcur < 1 \/ rcur > totalSegments
           THEN ReadEnd("invalid") /\ UNCHANGED rvisited
           ELSE IF rcur \in rvisited
           THEN ReadEnd("loop") /\ UNCHANGED rvisited
           ELSE IF SegBlockOf(FirstDirBlock, rcur) + 1 >= totalBlocks
           THEN ReadEnd("bounds") /\ rvisited' = rvisited \cup {rcur}
           ELSE /\ rvisited' = rvisited \cup {rcur}
                /\ rentries' = rentries \o DecodeFrom(dir[rcur], rcur, HEADER_WORDS,
                                                     dir[1][4], SumLen(rentries))
                /\ rdecoded' = Append(rdecoded, rcur)
                /\ rcur' = dir[rcur][1]
                /\ UNCHANGED << rpc, rstop >>
    /\ UNCHANGED << homeWord, totalBlocks, dir >>
    /\ UNCHANGED << copyVars, mainVars, funVars >>

NextRead ==
    \/ ReadStart
    \/ ReadStep

SpecRead == InitImage /\ [][NextRead]_vars

\* the loop of readDirectory runs on until it leaves
SpecReadFair == SpecRead /\ WF_vars(NextRead)

\* splitDirectorySegment called for a segment number, on an image that holds
\* every directory block
SplitCall ==
    /\ pc = "idle"
    /\ result = "none"
    /\ SegBlockOf(FirstDirBlock, ImageSegments) + 1 < totalBlocks
    /\ \E seg \in 1..(ImageSegments + 1) :
          emptyEntry' = [NoEntry EXCEPT !.segNumber = seg]
    /\ pc' = "split"
    /\ result' = "running"
    /\ dir0' = dir
    /\ data0' = data
    /\ UNCHANGED << homeWord, totalBlocks, dir, data, req, dateW, written, segRead,
                    words, sp, ncopies, nsplits, pre >>
    /\ UNCHANGED << readerVars, mainVars, funVars >>

\* splitDirectorySegment returns
SplitReturn ==
    /\ pc = "retry"
    /\ pc' = "idle"
    /\ result' = "split"
    /\ UNCHANGED << homeWord, totalBlocks, dir, data, req, dateW, emptyEntry,
                    written, segRead, words, sp, ncopies, nsplits, dir0, data0, pre >>
    /\ UNCHANGED << readerVars, mainVars, funVars >>

NextSplit ==
    \/ SplitCall
    \/ SplitEnter
    \/ SplitOld0
    \/ SplitOld1
    \/ SplitNew0
    \/ SplitNew1
    \/ SplitOne0
    \/ SplitOne1
    \/ SplitReturn

SpecSplit == InitImage /\ [][NextSplit]_vars

\* the reader, step by step, returns what readDirectory computes
ReaderAgrees ==
    rpc = "done" => rentries = readDirectory(dir, homeWord, totalBlocks)

(***************************************************************************)
(* What the claims speak about                                             *)
(***************************************************************************)
\* the words of the entry at word index idx
EntryImage(w, idx) == [o \in 0..(EntryWords(w) - 1) |-> w[idx + o]]

\* the entries of a segment, word for word
EntryImages(w) ==
    LET idxs == EntryIdx(w)
    IN  [k \in 1..Len(idxs) |-> EntryImage(w, idxs[k])]

\* what a listing shows of an entry
Shown(e) == [status |-> e.status, name |-> e.name, lengthBlocks |-> e.lengthBlocks,
             dateWord |-> e.dateWord, startBlock |-> e.startBlock]

ShownAll(es) == [k \in 1..Len(es) |-> Shown(es[k])]

Listing(d) == readDirectory(d, homeWord, totalBlocks)

\* the position (1-based) of the chosen entry among the entries of the
\* segment as the update read it
ChosenPos ==
    LET idxs == EntryIdx(segRead)
    IN  CHOOSE k \in 0..Len(idxs) :
            IF \E j \in 1..Len(idxs) : idxs[j] = emptyEntry.wordIndex
            THEN k > 0 /\ idxs[k] = emptyEntry.wordIndex
            ELSE k = 0

Copied == pc = "idle" /\ result = "copied"

\* the allocation left a remainder and entries followed the chosen one
RemainderBeforeOthers ==
    /\ Copied
    /\ Remaining(segRead, emptyEntry.wordIndex, req.blocks) > 0
    /\ ChosenPos > 0
    /\ ChosenPos < Len(EntryIdx(segRead))

\* C1: when an allocation leaves a remainder and entries follow the chosen
\* entry in its segment, the committed segment holds every one of those
\* entries, once and in order, after the new Empty remainder and before the
\* sentinel.
C1_FollowersKept ==
    RemainderBeforeOthers =>
        LET before == EntryImages(segRead)
            after == EntryImages(dir[emptyEntry.segNumber])
        IN  /\ Len(after) = Len(before) + 1
            /\ \A k \in (ChosenPos + 1)..Len(before) : after[k + 1] = before[k]

\* C2: a successful copy-to leaves the sum of the lengths of all entries of
\* the listing as it was before the operation.
C2_LengthSumKept ==
    Copied => SumLen(Listing(dir)) = SumLen(Listing(dir0))

\* C3: every Permanent entry listed before a copy-to is still listed after
\* it, with the same name, length and start block.
C3_PermanentKept ==
    pc = "idle" =>
        \A k \in 1..Len(Listing(dir0)) :
            Listing(dir0)[k].permanent =>
                \E j \in 1..Len(Listing(dir)) :
                    /\ Listing(dir)[j].permanent
                    /\ Listing(dir)[j].name = Listing(dir0)[k].name
                    /\ Listing(dir)[j].lengthBlocks = Listing(dir0)[k].lengthBlocks
                    /\ Listing(dir)[j].startBlock = Listing(dir0)[k].startBlock

InSplit == pc \in {"old0", "old1", "new0", "new1", "one0", "one1", "retry"}

\* C4: at every point of a split, the new segment is reachable from
\* segment 1 only once it is on the image with its final content.
C4_NoDanglingLink ==
    InSplit =>
        \A k \in 1..Len(Chain(dir)) :
            Chain(dir)[k] = sp.newSegNum => dir[sp.newSegNum] = sp.newWords

\* the blocks of an entry
BlocksOf(e) == e.startBlock..(e.startBlock + e.lengthBlocks - 1)

\* the entry of the image at the position of the chosen entry
AtChosen(e) ==
    e.segNumber = emptyEntry.segNumber /\ e.wordIndex = emptyEntry.wordIndex

Committing == pc = "commit1" \/ Copied

\* the order of the writes: no directory block of the update is written
\* before the last data block
DataBeforeDirectory ==
    Committing =>
        /\ written = req.blocks
        /\ \A b \in emptyEntry.startBlock..(emptyEntry.startBlock + req.blocks - 1) :
               data[b] = WrittenBy(ncopies)

\* C5: at every point of a copy-to at which the image shows the new file's
\* entry as Permanent, every block of that entry has been written by this
\* copy.
C5_NewEntryWritten ==
    Committing =>
        \A k \in 1..Len(Entries) :
            (AtChosen(Entries[k]) /\ Entries[k].permanent) =>
                \A b \in BlocksOf(Entries[k]) : b \in DOMAIN data /\ data[b] = WrittenBy(ncopies)

SplitDone == pc = "retry"

\* C6: after a split of segment s into new segment n, the link of s is n,
\* the link of n is the link s had, and the chain is one segment longer.
C6_Spliced ==
    SplitDone =>
        /\ dir[sp.seg][1] = sp.newSegNum
        /\ dir[sp.newSegNum][1] = pre[sp.seg][1]
        /\ Len(Chain(dir)) = Len(Chain(pre)) + 1

\* C7: the listing (status, name, length, date word and start block of
\* every entry, in order) is the same right before and right after a split.
C7_ListingKept ==
    SplitDone => ShownAll(Listing(dir)) = ShownAll(Listing(pre))

\* the entries of the segment that was split, as they were before the split
SplitEntries == EntryImages(pre[sp.seg])

\* a split that took effect, left entries on both sides, on an image whose
\* other segments hold entries too
C7_Witness ==
    /\ SplitDone
    /\ Len(Chain(dir)) = Len(Chain(pre)) + 1
    /\ Len(EntryIdx(dir[sp.seg])) >= 1
    /\ Len(EntryIdx(dir[sp.newSegNum])) >= 1
    /\ Len(Listing(pre)) > Len(SplitEntries)

\* C8: after a split at index k of a segment with entries E(0)..E(n-1), the
\* old segment has the sentinel at the word position of entry k, and the new
\* segment holds exactly E(k)..E(n-1), word for word from word 5 on, and the
\* sentinel right after them.
C8_SplitLayout ==
    SplitDone =>
        LET idxs == EntryIdx(pre[sp.seg])
            n == Len(idxs)
            k == sp.midPos
            ew == EntryWords(pre[sp.seg])
        IN  /\ dir[sp.seg][idxs[k + 1]] = E_EOS
            /\ EntryImages(dir[sp.newSegNum]) = SubSeq(SplitEntries, k + 1, n)
            /\ \A m \in 1..(n - k) :
                   EntryIdx(dir[sp.newSegNum])[m] = HEADER_WORDS + (m - 1) * ew
            /\ dir[sp.newSegNum][HEADER_WORDS + (n - k) * ew] = E_EOS

\* C9: after a split of a segment of two or more entries, the old and the
\* new segment each hold at least one entry.
C9_BothSidesHold ==
    (SplitDone /\ Len(SplitEntries) >= 2) =>
        /\ Len(EntryIdx(dir[sp.seg])) >= 1
        /\ Len(EntryIdx(dir[sp.newSegNum])) >= 1

\* C10: after a split into new segment n, highestInUse of segment 1 is the
\* larger of its value before the split and n, and segment 1 is written for
\* it only when n is the larger.
C10_HighestInUse ==
    /\ SplitDone => dir[1][2] = Max(pre[1][2], sp.newSegNum)
    /\ pc \in {"one0", "one1"} => sp.newSegNum > pre[1][2]

\* a split that took effect and whose new segment number exceeded
\* highestInUse, segment 1 rewritten
C10_Witness ==
    /\ SplitDone
    /\ Len(Chain(dir)) = Len(Chain(pre)) + 1
    /\ sp.newSegNum > pre[1][2]
    /\ sp.rewrite1
    /\ dir[1][2] = sp.newSegNum

\* an entry the request fits in: Empty and long enough
Qualifies(e) == e.empty /\ e.lengthBlocks >= req.blocks

\* the position of the chosen entry in the listing of directory d, 0 if it
\* is not listed
ListedAt(d) ==
    LET es == Listing(d)
    IN  IF \E k \in 1..Len(es) : AtChosen(es[k])
        THEN CHOOSE k \in 1..Len(es) : AtChosen(es[k])
        ELSE 0

\* C11: the entry copy-to allocates in is the first one of the listing that
\* is Empty and at least as long as the file, and the operation ends with
\* the no-space error exactly when no entry of the listing is.
C11_FirstFit ==
    LET es == Listing(dir)
        p == ListedAt(dir)
    IN  /\ pc = "data" =>
              /\ p > 0
              /\ Qualifies(es[p])
              /\ \A j \in 1..(p - 1) : ~Qualifies(es[j])
        /\ (pc = "idle" /\ result = "NoSpace") =>
              \A j \in 1..Len(es) : ~Qualifies(es[j])

\* an allocation in an entry longer than the file while a later entry of
\* the listing has exactly the file's length
C11_Witness ==
    /\ pc = "data"
    /\ emptyEntry.lengthBlocks > req.blocks
    /\ LET es == Listing(dir)
           p == ListedAt(dir)
       IN  /\ p > 0
           /\ \E j \in (p + 1)..Len(es) :
                  es[j].empty /\ es[j].lengthBlocks = req.blocks

\* the directory as the update of the running copy-to read it
BeforeUpdate == [dir EXCEPT ![emptyEntry.segNumber] = segRead]

\* a copy-to has ended well and left a remainder of the chosen entry
CopiedWithRemainder ==
    Copied /\ Remaining(segRead, emptyEntry.wordIndex, req.blocks) > 0

\* C12: after a copy-to of N blocks into an Empty entry of length L > N that
\* starts at block B, the listing shows at that entry's position a Permanent
\* entry of length N at B, and right after it an Empty entry of length L - N
\* at B + N.
C12_PermanentThenRemainder ==
    CopiedWithRemainder =>
        LET p == ListedAt(BeforeUpdate)
            after == Listing(dir)
        IN  /\ p > 0
            /\ Len(after) >= p + 1
            /\ after[p].permanent /\ ~after[p].empty
            /\ after[p].lengthBlocks = req.blocks
            /\ after[p].startBlock = emptyEntry.startBlock
            /\ after[p + 1].empty /\ ~after[p + 1].permanent
            /\ after[p + 1].lengthBlocks = emptyEntry.lengthBlocks - req.blocks
            /\ after[p + 1].startBlock = emptyEntry.startBlock + req.blocks

\* such a copy-to into an entry that is not the first of the listing, in a
\* segment that is not the last of the chain
C12_Witness ==
    /\ CopiedWithRemainder
    /\ ListedAt(BeforeUpdate) > 1
    /\ emptyEntry.lengthBlocks > req.blocks
    /\ dir[emptyEntry.segNumber][1] # 0

\* a copy-to has ended well in an entry of exactly the file's length
CopiedExactFit ==
    Copied /\ segRead[emptyEntry.wordIndex + 4] = req.blocks

\* C13: a copy-to into an Empty entry of exactly the file's length makes
\* that entry Permanent where it is: the segment has as many entries as
\* before, every other entry and the sentinel position are as before, and no
\* split is requested for such an entry.
C13_ExactFitInPlace ==
    /\ CopiedExactFit =>
          LET w == dir[emptyEntry.segNumber]
              after == EntryImages(w)
              before == EntryImages(segRead)
              chosen == ChosenPos
          IN  /\ Len(after) = Len(before)
              /\ ScanEos(w, HEADER_WORDS) = ScanEos(segRead, HEADER_WORDS)
              /\ HasBit(w[emptyEntry.wordIndex], E_PERM)
              /\ w[emptyEntry.wordIndex + 4] = req.blocks
              /\ \A k \in 1..Len(after) : k # chosen => after[k] = before[k]
              /\ nsplits = 0
    /\ pc \in {"split", "old0", "old1", "new0", "new1", "one0", "one1", "retry"} =>
          emptyEntry.lengthBlocks > req.blocks

\* an exact fit in an entry so late in its segment that a remainder after it
\* would have asked for a split
C13_Witness ==
    /\ CopiedExactFit
    /\ NeedsSplit_Always(segRead, emptyEntry.wordIndex, req.blocks)
    /\ ChosenPos > 1

\* the entries of the segments segs, one segment after the other, the block
\* offset running on from off
RECURSIVE EntriesOf(_, _, _)
EntriesOf(d, segs, off) ==
    IF segs = << >> THEN << >>
    ELSE LET es == DecodeFrom(d[segs[1]], segs[1], HEADER_WORDS, d[1][4], off)
         IN  es \o EntriesOf(d, Tail(segs), off + SumLen(es))

\* no segment number twice in a sequence
NoRepeat(segs) ==
    \A i \in 1..Len(segs) : \A j \in 1..Len(segs) : segs[i] = segs[j] => i = j

\* segs follows the links from segment 1
FollowsLinks(d, segs) ==
    /\ segs # << >> => segs[1] = 1
    /\ \A k \in 1..(Len(segs) - 1) : segs[k + 1] = d[segs[k]][1]

WalkStoppedAtBadLink == rpc = "done" /\ rstop \in {"loop", "invalid"}

\* C14: when the walk of readDirectory reaches a segment number that was
\* visited before or is outside 1..totalSegments, it ends there: what it
\* returns is exactly the entries of the segments on the way from segment 1,
\* in that order, each segment decoded once.
C14_StopsAtBadLink ==
    WalkStoppedAtBadLink =>
        /\ FollowsLinks(dir, rdecoded)
        /\ NoRepeat(rdecoded)
        /\ rdecoded # << >> /\ rcur = dir[rdecoded[Len(rdecoded)]][1]
        /\ \/ \E k \in 1..Len(rdecoded) : rdecoded[k] = rcur
           \/ rcur > ClampSegments(dir[1][0])
        /\ rentries = EntriesOf(dir, rdecoded, 0)

\* a link back to a visited segment met after two or more segments that
\* hold entries
C14_Witness ==
    /\ rpc = "done"
    /\ rstop = "loop"
    /\ Len(rdecoded) >= 2
    /\ Len(rentries) > Len(EntryIdx(dir[1]))

\* C15: readDirectory ends on every image, and on its way it decodes no
\* segment number twice and no more segments than totalSegments.
C15_Terminates ==
    /\ [](NoRepeat(rdecoded) /\ Len(rdecoded) <= ClampSegments(dir[1][0]))
    /\ <>(rpc \in {"done", "error"})

\* a walk that decoded every segment of the image and met a link back
C15_Witness ==
    /\ rpc = "done"
    /\ rstop = "loop"
    /\ Len(rdecoded) = ImageSegments

\* both blocks of the pair of segment s lie in the volume
PairInVolume(s) ==
    /\ FirstDirBlock + (s - 1) * DIR_SEGMENT_BLOCKS < totalBlocks
    /\ FirstDirBlock + (s - 1) * DIR_SEGMENT_BLOCKS + 1 < totalBlocks

\* C16: the walk ends for the volume's bounds only at a segment whose block
\* pair does not lie below the volume's block count, and it never ends at a
\* linked segment that is in 1..totalSegments, not yet visited and whose
\* pair lies in the volume.
C16_DecodesWhatFits ==
    /\ (rpc = "done" /\ rstop = "bounds") => ~PairInVolume(rcur)
    /\ rpc = "done" =>
          ~ /\ rcur \in 1..ClampSegments(dir[1][0])
            /\ \A k \in 1..Len(rdecoded) : rdecoded[k] # rcur
            /\ PairInVolume(rcur)
    /\ \A k \in 1..Len(rdecoded) : PairInVolume(rdecoded[k])

\* a walk that decoded a segment whose pair ends at the last block of the
\* volume, or stopped at one whose second block is the first one past it
C16_Witness ==
    /\ rpc = "done"
    /\ \/ /\ rstop = "bounds"
          /\ FirstDirBlock + (rcur - 1) * DIR_SEGMENT_BLOCKS + 1 = totalBlocks
       \/ /\ Len(rdecoded) >= 2
          /\ FirstDirBlock + (rdecoded[Len(rdecoded)] - 1) * DIR_SEGMENT_BLOCKS + 2
                 = totalBlocks

\* C17: readDirectory never ends with an error.
C17_NeverAborts == rpc # "error"

\* C18: the start block of every entry readDirectory returns is the data
\* start block of segment 1 plus the sum of the lengths of the entries
\* before it.
C18_StartBlocksExact ==
    \A k \in 1..Len(rentries) :
        rentries[k].startBlock = dir[1][4] + SumLen(SubSeq(rentries, 1, k - 1))

\* the errors splitDirectorySegment throws before it writes
SplitErrors ==
    {"InvalidSegmentCount", "DirectoryLoopDetected", "NotInChain", "DirectoryFull",
     "EmptySegment"}

\* C19: when a copy-to ends with the no-space error or with an error of the
\* split, every directory block is as it was when the copy-to started.
C19_ErrorsLeaveDirectory ==
    (pc = "idle" /\ result \in {"NoSpace"} \cup SplitErrors) => dir = dir0

\* splitDirectorySegment has ended with one of its errors
SplitFailed == pc = "idle" /\ result \in SplitErrors

\* C20: when splitDirectorySegment ends with one of its errors (invalid
\* totalSegments, link loop, segment not in the chain, directory full, empty
\* segment), every block of the image is as it was when it was called.
C20_FailedSplitWritesNothing ==
    SplitFailed => dir = dir0 /\ data = data0

\* a split refused for a link loop on an image whose segment to split holds
\* entries
C20_Witness ==
    /\ SplitFailed
    /\ result = "DirectoryLoopDetected"
    /\ emptyEntry = NoEntry
    /\ Len(EntryIdx(dir[1])) > 0

(***************************************************************************)
(* The chain under splits and allocations                                  *)
(***************************************************************************)
\* the links from cur end at 0 without leaving 1..totalSegments and without
\* coming back to a segment already passed
RECURSIVE EndsCleanly(_, _, _, _)
EndsCleanly(d, totalSegments, cur, seen) ==
    IF cur = 0 THEN TRUE
    ELSE IF cur < 1 \/ cur > totalSegments \/ cur \in seen THEN FALSE
    ELSE EndsCleanly(d, totalSegments, d[cur][1], seen \cup {cur})

ChainSound(d) ==
    /\ d[1][0] \in 1..MAX_SEGMENTS
    /\ EndsCleanly(d, d[1][0], 1, {})

InChain(d, s) == \E k \in 1..Len(Chain(d)) : Chain(d)[k] = s

\* C21: from an image whose chain is acyclic and in range, the chain is
\* acyclic and within 1..totalSegments after every completed split and after
\* every allocation, and the segment number a split chose was not in the
\* chain when that split began.
C21_ChainStaysSound ==
    /\ (pc \in {"idle", "retry", "enter"}) => ChainSound(dir)
    /\ SplitDone =>
          /\ ChainSound(pre)
          /\ sp.newSegNum \in 1..pre[1][0]
          /\ ~InChain(pre, sp.newSegNum)

\* a file recorded after a split that made the chain longer
C21_Witness ==
    /\ pc = "idle"
    /\ result = "copied"
    /\ nsplits > 0
    /\ Len(Chain(dir)) > Len(Chain(dir0))
    /\ ChainSound(dir0)

(***************************************************************************)
(* The retry after a split                                                 *)
(***************************************************************************)
\* C22: when the remainder entry and the sentinel would overflow the chosen
\* entry's segment, one split is enough: the allocation retried on the chain
\* read again records the file and asks for no second split.
C22_OneSplitSuffices ==
    nsplits >= 1 => pc # "split"

(***************************************************************************)
(* Termination of copySingleToRt11                                         *)
(***************************************************************************)
\* C23: every call of copySingleToRt11 on an image with an acyclic in-range
\* chain ends, with success or with an error: one call never completes more
\* than 2 * totalSegments splits, and a running call always comes to its end.
C23_CopyTerminates ==
    /\ [](nsplits <= 2 * dir[1][0])
    /\ [](pc # "idle" => <>(pc = "idle"))

\* a call that split more than once and then ended
C23_Witness ==
    /\ pc = "idle"
    /\ nsplits >= 2
    /\ result \in {"copied", "DirectoryFull"}
    /\ ChainSound(dir0)

(***************************************************************************)
(* noReplace                                                               *)
(***************************************************************************)
\* a Permanent entry of directory d bears the 6.3 name of the host file,
\* letter case apart
NameTaken(d, name) ==
    LET es == Listing(d)
        rtname == normalizeRt11Name(name)
    IN  \E k \in 1..Len(es) :
            /\ HasBit(es[k].status, E_PERM)
            /\ UpperStr(es[k].name) = UpperStr(rtname)

\* C27: with noReplace set and a Permanent entry bearing the normalized 6.3
\* name of the source file (compared without regard to case), copySingleToRt11
\* returns without writing: no data block and no directory block changes.
C27_NoReplaceWritesNothing ==
    (req.noReplace /\ NameTaken(dir0, req.name)) =>
        /\ pc \in {"enter", "idle"}
        /\ dir = dir0
        /\ data = data0
        /\ pc = "idle" => result = "skipped"

\* a copy skipped because its name is taken
C27_Witness ==
    /\ pc = "idle"
    /\ result = "skipped"
    /\ req.noReplace
    /\ req.name # normalizeRt11Name(req.name)
    /\ NameTaken(dir0, req.name)

(***************************************************************************)
(* The order of the writes of a split                                      *)
(***************************************************************************)
\* a segment after n of the two block writes of buf onto it
BlocksWritten(seg, buf, n) ==
    [j \in 0..(SEG_WORDS - 1) |->
        IF j < n * BLOCK_WORDS THEN buf[j] ELSE seg[j]]

Clip(n) == IF n < 0 THEN 0 ELSE IF n > DIR_SEGMENT_BLOCKS THEN DIR_SEGMENT_BLOCKS ELSE n

\* the directory after the first n block writes of the running split, taken
\* in the order old segment, new segment, segment 1
AfterWrites(n) ==
    LET d1 == [pre EXCEPT ![sp.seg] = BlocksWritten(@, sp.oldSegWords, Clip(n))]
        d2 == [d1 EXCEPT ![sp.newSegNum] =
                  BlocksWritten(@, sp.newWords, Clip(n - 2))]
    IN  [d2 EXCEPT ![1] = BlocksWritten(@, sp.seg1Words, Clip(n - 4))]

\* the block writes a split has made when the program stands at p
WritesAt(p) ==
    CASE p = "old0" -> 0
      [] p = "old1" -> 1
      [] p = "new0" -> 2
      [] p = "new1" -> 3
      [] p = "one0" -> 4
      [] p = "one1" -> 5
      [] OTHER -> IF sp.rewrite1 THEN 6 ELSE 4

\* C29: splitDirectorySegment writes the two blocks of the old segment, then
\* the two blocks of the new segment, then, only if highestInUse changes, the
\* two blocks of segment 1; the retried allocation of copySingleToRt11 writes
\* no directory block before all of these writes are done.
C29_SplitWriteOrder ==
    /\ pc \in {"old0", "old1", "new0", "new1", "one0", "one1", "retry"} =>
          dir = AfterWrites(WritesAt(pc))
    /\ pc \in {"one0", "one1"} => Max(pre[1][2], sp.newSegNum) # pre[1][2]
    /\ (nsplits >= 1 /\ pc \in {"enter", "data", "update", "commit0", "split"}) =>
          dir = AfterWrites(WritesAt(pc))

\* the retried allocation about to write its first directory block, after a
\* split that wrote all three segments
C29_Witness ==
    /\ pc = "commit0"
    /\ nsplits >= 1
    /\ sp.rewrite1
    /\ sp.seg # 1
    /\ dir = AfterWrites(6)
    /\ dir # AfterWrites(4)

(***************************************************************************)
(* The rewrite of segment 1                                                *)
(***************************************************************************)
\* C30: when the split rewrites segment 1 to update highestInUse, header word
\* 2 is the only word of segment 1 that differs from what segment 1 held on
\* disk just before that rewrite, whichever segment was split.
C30_OnlyHighestChanges ==
    (pc = "retry" /\ sp.rewrite1) =>
        \A j \in 0..(SEG_WORDS - 1) :
            j # 2 => dir[1][j] = AfterWrites(4)[1][j]

(***************************************************************************)
(* encodeRad50 and decodeRad50 by themselves                               *)
(***************************************************************************)
\* one plain image, on which nothing is started
PlainVolume ==
    /\ InitVolume
    /\ homeWord = 0
    /\ dir = ImageOf(<< 1 >>, << 1 >>, 1, 0)

restOfState == << homeWord, totalBlocks, dir, copyVars, readerVars, mainVars >>

\* the 3-character strings over the RAD50 alphabet
Rad50Strings ==
    { << RAD50_TABLE[a], RAD50_TABLE[b], RAD50_TABLE[c] >> :
          a \in 1..40, b \in 1..40, c \in 1..40 }

InitRad50 ==
    /\ PlainVolume
    /\ MainIdle
    /\ input \in Rad50Strings
    /\ output = << >>
    /\ fpc = "string"

Rad50Encode ==
    /\ fpc = "string"
    /\ output' = encodeRad50(input)
    /\ fpc' = "word"
    /\ UNCHANGED << input, restOfState >>

Rad50Decode ==
    /\ fpc = "word"
    /\ output' = decodeRad50(output)
    /\ fpc' = "decoded"
    /\ UNCHANGED << input, restOfState >>

NextRad50 == Rad50Encode \/ Rad50Decode

SpecRad50 == InitRad50 /\ [][NextRad50]_vars

\* C24: decodeRad50(encodeRad50(s)) is s for every 3-character string s over
\* the 40 symbols of the RAD50 alphabet.
C24_Rad50RoundTrip ==
    fpc = "decoded" => output = input

(***************************************************************************)
(* encodeRt11Date and the fields formatRt11Date reads, by themselves       *)
(***************************************************************************)
\* a && b of C, as an int
LogicalAnd(a, b) == IF a # 0 /\ b # 0 THEN 1 ELSE 0

encodeRt11Date(year, month, day) ==
    IF year < 1972 \/ year > 2099 THEN 0
    ELSE IF month < 1 \/ month > 12 \/ day < 1 \/ day > 31 THEN 0
    ELSE
    LET yearOffset == year - 1972
        age == IF yearOffset \div 32 > 3 THEN 3 ELSE yearOffset \div 32
        base == 1972 + age * 32
        yearLow == IF year - base < 0 THEN 0 ELSE year - base
    IN  U16((age % 4) * 16384
            + (month % 16) * 1024
            + LogicalAnd(day, 31) * 32
            + (yearLow % 32))

\* the fields formatRt11Date takes out of a date word, and the year it
\* computes from them
DateFields(dateWord) ==
    LET age == (dateWord \div 16384) % 4
        yl == dateWord % 32
    IN  [ age |-> age,
          month |-> (dateWord \div 1024) % 16,
          day |-> (dateWord \div 32) % 32,
          yl |-> yl,
          year |-> 1972 + yl + 32 * age ]

Years == 1971..2100
Months == 0..13
Days == 0..32

InitDate ==
    /\ PlainVolume
    /\ MainIdle
    /\ input \in [year : Years, month : Months, day : Days]
    /\ output = << >>
    /\ fpc = "date"

DateEncode ==
    /\ fpc = "date"
    /\ output' = encodeRt11Date(input.year, input.month, input.day)
    /\ fpc' = "dateword"
    /\ UNCHANGED << input, restOfState >>

DateDecode ==
    /\ fpc = "dateword"
    /\ output' = DateFields(output)
    /\ fpc' = "fields"
    /\ UNCHANGED << input, restOfState >>

NextDate == DateEncode \/ DateDecode

SpecDate == InitDate /\ [][NextDate]_vars

ValidDate(d) ==
    /\ d.year \in 1972..2099
    /\ d.month \in 1..12
    /\ d.day \in 1..31

\* C25: for every year of 1972..2099, month of 1..12 and day of 1..31, the
\* fields decoded from encodeRt11Date(year, month, day) give back the year,
\* the month and the day; encodeRt11Date returns 0 for year 2100 and for
\* day 0.
C25_DateRoundTrip ==
    /\ (fpc = "fields" /\ ValidDate(input)) =>
          /\ output.year = input.year
          /\ output.month = input.month
          /\ output.day = input.day
    /\ (fpc = "dateword" /\ (input.year = 2100 \/ input.day = 0)) => output = 0

(***************************************************************************)
(* main: the command line                                                  *)
(***************************************************************************)
\* arg.rfind(prefix, 0) == 0
StartsWith(s, prefix) ==
    Len(s) >= Len(prefix) /\ SubSeq(s, 1, Len(prefix)) = prefix

\* s.substr(pos), for pos <= s.size(); beyond that std::string throws
substr(s, pos) == SubSeq(s, pos + 1, Len(s))

Digits == << "0", "1", "2", "3", "4", "5", "6", "7", "8", "9" >>

IsDigit(c) == \E k \in 1..10 : Digits[k] = c

DigitValue(c) == (CHOOSE k \in 1..10 : Digits[k] = c) - 1

RECURSIVE SkipSpaces(_)
SkipSpaces(s) ==
    IF s # << >> /\ s[1] = " " THEN SkipSpaces(Tail(s)) ELSE s

RECURSIVE CountDigits(_)
CountDigits(s) ==
    IF s # << >> /\ IsDigit(s[1]) THEN 1 + CountDigits(Tail(s)) ELSE 0

RECURSIVE DigitsValue(_, _)
DigitsValue(s, n) ==
    IF n = 0 THEN 0 ELSE DigitsValue(s, n - 1) * 10 + DigitValue(s[n])

\* std::stoi on a short string: blanks, a sign, then the digits there are;
\* without a digit it throws
stoi(s) ==
    LET t == SkipSpaces(s)
        signed == t # << >> /\ t[1] \in {"+", "-"}
        u == IF signed THEN Tail(t) ELSE t
        n == CountDigits(u)
    IN  IF n = 0 THEN [ok |-> FALSE, value |-> 0]
        ELSE [ok |-> TRUE,
              value |-> IF signed /\ t[1] = "-"
                        THEN 0 - DigitsValue(u, n) ELSE DigitsValue(u, n)]

monthNames ==
    << << "J", "A", "N" >>,
       << "F", "E", "B" >>,
       << "M", "A", "R" >>,
       << "A", "P", "R" >>,
       << "M", "A", "Y" >>,
       << "J", "U", "N" >>,
       << "J", "U", "L" >>,
       << "A", "U", "G" >>,
       << "S", "E", "P" >>,
       << "O", "C", "T" >>,
       << "N", "O", "V" >>,
       << "D", "E", "C" >> >>

NoDate == [ok |-> FALSE, day |-> 0, month |-> 0, year |-> 0]

parseDateString(dateStr) ==
    IF Len(dateStr) # 9 THEN NoDate
    ELSE IF dateStr[3] # "-" \/ dateStr[7] # "-" THEN NoDate
    ELSE
    LET d == stoi(SubSeq(dateStr, 1, 2))
        monthStr == UpperStr(SubSeq(dateStr, 4, 6))
        month == IF \E i \in 1..12 : monthNames[i] = monthStr
                 THEN CHOOSE i \in 1..12 : monthNames[i] = monthStr
                 ELSE 0
        y == stoi(SubSeq(dateStr, 8, 9))
        year == IF y.value >= 72 THEN 1900 + y.value ELSE 2000 + y.value
    IN  IF ~d.ok \/ d.value < 1 \/ d.value > 31 THEN NoDate
        ELSE IF month = 0 THEN NoDate
        ELSE IF ~y.ok THEN NoDate
        ELSE IF year < 1972 \/ year > 2099 THEN NoDate
        ELSE [ok |-> TRUE, day |-> d.value, month |-> month, year |-> year]

\* the option texts main compares with
OptHelp == << "/", "h", "e", "l", "p" >>
OptH == << "/", "h" >>
OptQuery == << "/", "?" >>
OptBrief == << "/", "b", "r", "i", "e", "f" >>
OptB == << "/", "b" >>
OptEmpty == << "/", "e", "m", "p", "t", "y" >>
OptE == << "/", "e" >>
OptCopyFromColon == << "/", "c", "o", "p", "y", "f", "r", "o", "m", ":" >>
OptCopyFrom == << "/", "c", "o", "p", "y", "f", "r", "o", "m" >>
OptCopyTo == << "/", "c", "o", "p", "y", "t", "o" >>
OptFromColon == << "/", "f", "r", "o", "m", ":" >>
OptToColon == << "/", "t", "o", ":" >>
OptTo == << "/", "t", "o" >>
OptNoReplace == << "/", "n", "o", "r", "e", "p", "l", "a", "c", "e" >>
OptToDateColon == << "/", "t", "o", "d", "a", "t", "e", ":" >>

HelpArgs == { OptHelp, OptH, OptQuery }

\* a faulty /todate: branch: a date that does not parse is passed over
TodateArg_Unchecked(o, dateStr) ==
    LET p == parseDateString(dateStr)
    IN  [opts |-> [o EXCEPT !.optionalDateWord =
                      IF p.ok THEN encodeRt11Date(p.year, p.month, p.day) ELSE 0],
         stop |-> "no"]

\* the /todate: branch of the loop of main
TodateArg(o, dateStr) ==
    LET p == parseDateString(dateStr)
        dw == encodeRt11Date(p.year, p.month, p.day)
    IN  IF ~p.ok THEN [opts |-> o, stop |-> "InvalidDateFormat"]
        ELSE IF dw = 0 THEN [opts |-> o, stop |-> "FailedToEncodeDate"]
        ELSE [opts |-> [o EXCEPT !.optionalDateWord = dw], stop |-> "no"]

\* one turn of the loop of main over argv: the options after it, and whether
\* main stops at this argument
ParseArg(o, arg) ==
    IF arg \in HelpArgs THEN [opts |-> o, stop |-> "help"]
    ELSE IF arg \in { OptBrief, OptB } THEN [opts |-> [o EXCEPT !.brief = TRUE], stop |-> "no"]
    ELSE IF arg \in { OptEmpty, OptE } THEN [opts |-> [o EXCEPT !.showEmpty = TRUE], stop |-> "no"]
    ELSE IF arg = OptCopyFrom THEN [opts |-> [o EXCEPT !.doCopyFrom = TRUE], stop |-> "no"]
    ELSE IF StartsWith(arg, OptCopyFromColon)
    THEN IF 11 > Len(arg) THEN [opts |-> o, stop |-> "out_of_range"]
         ELSE [opts |-> [o EXCEPT !.doCopyFrom = TRUE,
                                  !.copyFromPattern = substr(arg, 11)],
               stop |-> "no"]
    ELSE IF arg = OptCopyTo THEN [opts |-> [o EXCEPT !.doCopyTo = TRUE], stop |-> "no"]
    ELSE IF StartsWith(arg, OptFromColon)
    THEN [opts |-> [o EXCEPT !.copyToFromPattern = substr(arg, 6)], stop |-> "no"]
    ELSE IF arg = OptTo THEN [opts |-> [o EXCEPT !.toPath = << >>], stop |-> "no"]
    ELSE IF StartsWith(arg, OptToColon)
    THEN [opts |-> [o EXCEPT !.toPath = substr(arg, 4)], stop |-> "no"]
    ELSE IF arg = OptNoReplace THEN [opts |-> [o EXCEPT !.noReplace = TRUE], stop |-> "no"]
    ELSE IF StartsWith(arg, OptToDateColon) THEN TodateArg(o, substr(arg, 8))
    ELSE [opts |-> o, stop |-> "no"]

\* the texts given after /todate: on the command lines of the model
DateTexts ==
    { << "1", "5", "-", "J", "A", "N", "-", "9", "7" >>,
      << "0", "1", "-", "d", "e", "c", "-", "9", "9" >>,
      << "3", "1", "-", "M", "A", "R", "-", "0", "0" >>,
      << "1", "x", "-", "F", "E", "B", "-", "7", "1" >>,
      << "3", "2", "-", "J", "A", "N", "-", "9", "7" >>,
      << "0", "0", "-", "J", "A", "N", "-", "9", "7" >>,
      << "1", "5", "-", "X", "X", "X", "-", "9", "7" >>,
      << "1", "-", "J", "A", "N", "-", "9", "7" >>,
      << "1", "5", "/", "J", "A", "N", "/", "9", "7" >>,
      << "1", "5", "-", "J", "A", "N", "-", "x", "7" >>,
      << "x", "5", "-", "J", "A", "N", "-", "9", "7" >>,
      << >> }

\* the command lines of the model: argv without the program name
CommandLines ==
    { << >>,
      << << "/", "?" >> >>,
      << << "d" >> >>,
      << << "d" >>, << "/", "b" >> >>,
      << << "d" >>, << "/", "b", "r", "i", "e", "f" >>, << "/", "e", "m", "p", "t", "y" >> >>,
      << << "d" >>, << "/", "e" >>, << "/", "h", "e", "l", "p" >> >>,
      << << "d" >>, << "/", "c", "o", "p", "y", "f", "r", "o", "m" >>, << "/", "t", "o" >> >>,
      << << "d" >>, << "/", "c", "o", "p", "y", "f", "r", "o", "m", ":", "A", ".", "B" >>, << "/", "t", "o" >> >>,
      << << "d" >>, << "/", "c", "o", "p", "y", "f", "r", "o", "m", ":", "*", ".", "S", "A", "V" >>, << "/", "t", "o", ":", "x" >> >>,
      << << "d" >>, << "/", "c", "o", "p", "y", "f", "r", "o", "m", ":" >>, << "/", "t", "o" >> >>,
      << << "d" >>, << "/", "c", "o", "p", "y", "f", "r", "o", "m" >>, << "/", "c", "o", "p", "y", "t", "o" >>, << "/", "f", "r", "o", "m", ":", "f" >> >>,
      << << "d" >>, << "/", "c", "o", "p", "y", "t", "o" >> >>,
      << << "d" >>, << "/", "c", "o", "p", "y", "t", "o" >>, << "/", "f", "r", "o", "m", ":", "f" >> >>,
      << << "d" >>, << "/", "c", "o", "p", "y", "t", "o" >>, << "/", "f", "r", "o", "m", ":", "f" >>, << "/", "n", "o", "r", "e", "p", "l", "a", "c", "e" >> >>,
      << << "d" >>, << "/", "c", "o", "p", "y", "t", "o" >>, << "/", "f", "r", "o", "m", ":", "f" >>, << "/", "t", "o", "d", "a", "t", "e", ":", "1", "5", "-", "J", "A", "N", "-", "9", "7" >>, << "/", "n", "o", "r", "e", "p", "l", "a", "c", "e" >> >>,
      << << "d" >>, << "/", "t", "o", "d", "a", "t", "e", ":", "3", "2", "-", "J", "A", "N", "-", "9", "7" >> >>,
      << << "d" >>, << "/", "c", "o", "p", "y", "t", "o" >>, << "/", "f", "r", "o", "m", ":", "f" >>, << "/", "h" >>, << "/", "t", "o", "d", "a", "t", "e", ":", "3", "2", "-", "J", "A", "N", "-", "9", "7" >> >>,
      << << "d" >>, << "/", "z", "z" >> >> }
    \cup { << << "d" >>, OptCopyTo, OptFromColon \o << "f" >>, OptToDateColon \o t >> :
             t \in DateTexts }
    \cup { << << "d" >>, OptToDateColon \o t, OptCopyTo, OptFromColon \o << "f" >> >> :
             t \in DateTexts }


imageAndCopy == << homeWord, totalBlocks, dir, copyVars, readerVars, funVars >>

\* the images main is run on: one segment in the chain
MainVolume ==
    /\ InitVolume
    /\ homeWord = 0
    /\ Len(Chain(dir)) = 1

InitMain ==
    /\ MainVolume
    /\ FunIdle
    /\ argv \in CommandLines
    /\ argi = 0
    /\ opts = NoOptions
    /\ mpc = "start"
    /\ exitCode = 0
    /\ called = NoCall
    /\ reported = "none"

\* main returns
Exit(code, text) ==
    /\ mpc' = "exit"
    /\ exitCode' = code
    /\ reported' = text

\* main up to its loop: without an argument, or with a help option in the
\* place of the image, the help is printed
MainStart ==
    /\ mpc = "start"
    /\ IF Len(argv) < 1 \/ argv[1] \in HelpArgs
       THEN /\ Exit(0, "none")
            /\ UNCHANGED argi
       ELSE /\ mpc' = "args"
            /\ argi' = 2
            /\ UNCHANGED << exitCode, reported >>
    /\ UNCHANGED << argv, opts, called >>
    /\ UNCHANGED imageAndCopy

\* one turn of the loop over the arguments
MainArg ==
    /\ mpc = "args"
    /\ argi <= Len(argv)
    /\ LET r == ParseArg(opts, argv[argi])
       IN  IF r.stop = "no"
           THEN /\ opts' = r.opts
                /\ argi' = argi + 1
                /\ UNCHANGED << mpc, exitCode, reported >>
           ELSE /\ IF r.stop = "help" THEN Exit(0, "none")
                   ELSE IF r.stop = "out_of_range" THEN Exit(1, "exception")
                   ELSE Exit(1, r.stop)
                /\ UNCHANGED << opts, argi >>
    /\ UNCHANGED << argv, called >>
    /\ UNCHANGED imageAndCopy

\* after the loop: the operation asked for is called
MainDispatch ==
    /\ mpc = "args"
    /\ argi > Len(argv)
    /\ IF opts.doCopyFrom /\ opts.doCopyTo
       THEN /\ Exit(1, "CannotUseBoth")
            /\ UNCHANGED called
       ELSE IF opts.doCopyFrom
       THEN /\ called' = [fn |-> "copyFromRt11", pattern |-> opts.copyFromPattern,
                          toPath |-> opts.toPath, noReplace |-> opts.noReplace]
            /\ mpc' = "copyfrom"
            /\ UNCHANGED << exitCode, reported >>
       ELSE IF opts.doCopyTo
       THEN IF opts.copyToFromPattern = << >>
            THEN /\ Exit(1, "exception")
                 /\ UNCHANGED called
            ELSE /\ called' = [fn |-> "copyToRt11",
                               fromPattern |-> opts.copyToFromPattern,
                               noReplace |-> opts.noReplace,
                               optionalDateWord |-> opts.optionalDateWord]
                 /\ mpc' = "copyto"
                 /\ UNCHANGED << exitCode, reported >>
       ELSE /\ called' = [fn |-> "showDirectory", brief |-> opts.brief,
                          showEmpty |-> opts.showEmpty]
            /\ mpc' = "list"
            /\ UNCHANGED << exitCode, reported >>
    /\ UNCHANGED << argv, argi, opts >>
    /\ UNCHANGED imageAndCopy

\* copyFromRt11 or showDirectory has returned or thrown; neither writes to
\* the image
MainReadReturn ==
    /\ mpc \in {"copyfrom", "list"}
    /\ \/ Exit(0, "none")
       \/ Exit(1, "exception")
    /\ UNCHANGED << argv, argi, opts, called >>
    /\ UNCHANGED imageAndCopy

\* copyToRt11 calls copySingleToRt11 for the next host file, with the options
\* main passed
MainCopyFile ==
    /\ mpc = "copyto"
    /\ result \in {"none", "copied", "skipped"}
    /\ \E r \in Requests :
          /\ r.noReplace = called.noReplace
          /\ \E dw \in (IF called.optionalDateWord # 0
                        THEN {called.optionalDateWord} ELSE SystemDates) :
                StartCopy(r, dw)

\* copyToRt11 has returned or thrown: no host file matched, every file was
\* handled, or a copySingleToRt11 threw
MainCopyToReturn ==
    /\ mpc = "copyto"
    /\ pc = "idle"
    /\ IF ncopies > 0 /\ result \in {"copied", "skipped"}
       THEN Exit(0, "none")
       ELSE Exit(1, "exception")
    /\ UNCHANGED << argv, argi, opts, called >>
    /\ UNCHANGED imageAndCopy

NextMain ==
    \/ MainStart
    \/ MainArg
    \/ MainDispatch
    \/ MainReadReturn
    \/ MainCopyFile
    \/ MainCopyToReturn
    \/ CopyEnter
    \/ WriteData
    \/ BuildUpdate
    \/ Commit0
    \/ Commit1
    \/ SplitEnter
    \/ SplitOld0
    \/ SplitOld1
    \/ SplitNew0
    \/ SplitNew1
    \/ SplitOne0
    \/ SplitOne1
    \/ Retry

SpecMain == InitMain /\ [][NextMain]_vars

(***************************************************************************)
(* /todate and /copyfrom: on the command line                              *)
(***************************************************************************)
\* the argument is a /todate: whose text parseDateString rejects or
\* encodeRt11Date turns into 0
BadDateArg(a) ==
    /\ StartsWith(a, OptToDateColon)
    /\ LET p == parseDateString(substr(a, Len(OptToDateColon)))
       IN  ~p.ok \/ encodeRt11Date(p.year, p.month, p.day) = 0

\* the loop of main does not go past this argument
EndsLoop(a) ==
    \/ a \in HelpArgs
    \/ BadDateArg(a)
    \/ (StartsWith(a, OptCopyFromColon) /\ Len(a) < 11)

\* main comes to a bad /todate: argument, at position k of argv
DateRejectedAt(k) ==
    /\ Len(argv) >= 1
    /\ argv[1] \notin HelpArgs
    /\ k \in 2..Len(argv)
    /\ BadDateArg(argv[k])
    /\ \A j \in 2..(k - 1) : ~EndsLoop(argv[j])

\* C26: when the /todate argument is rejected by parseDateString, or encodes
\* to 0, main reports the error and exits with status 1 before any copy
\* operation starts: no block of the image is written.
C26_BadDateStopsMain ==
    \A k \in 1..Len(argv) :
        DateRejectedAt(k) =>
            /\ mpc \in {"start", "args", "exit"}
            /\ mpc = "args" => argi <= k
            /\ mpc = "exit" =>
                  /\ exitCode = 1
                  /\ reported \in {"InvalidDateFormat", "FailedToEncodeDate"}
            /\ called = NoCall
            /\ ncopies = 0
            /\ pc = "idle"
            /\ dir = dir0
            /\ data = data0

\* main has stopped at a bad date that came after /copyto and /from:
C26_Witness ==
    /\ mpc = "exit"
    /\ exitCode = 1
    /\ reported = "InvalidDateFormat"
    /\ opts.doCopyTo
    /\ opts.copyToFromPattern # << >>
    /\ DateRejectedAt(argi)

\* the text after the colon of the last /copyfrom: argument
PatternGiven ==
    LET ks == { k \in 2..Len(argv) : StartsWith(argv[k], OptCopyFromColon) }
        last == CHOOSE k \in ks : \A j \in ks : j <= k
    IN  substr(argv[last], Len(OptCopyFromColon))

\* C28: for an argument /copyfrom:PATTERN, the pattern main passes to
\* copyFromRt11 is PATTERN, the whole text after the colon.
C28_PatternPassedWhole ==
    (/\ called.fn = "copyFromRt11"
     /\ \E k \in 2..Len(argv) : StartsWith(argv[k], OptCopyFromColon)) =>
        called.pattern = PatternGiven


(***************************************************************************)
(* The split index, over the entry lists a segment can hold.               *)
(***************************************************************************)
\* the longest entry list the split index is computed for
MaxEntries == 6

RECURSIVE EntryLists(_)
EntryLists(n) ==
    IF n = 0 THEN { << >> }
    ELSE LET shorter == EntryLists(n - 1)
         IN  shorter \cup { Append(es, e) : es \in { s \in shorter : Len(s) = n - 1 },
                                            e \in { P(1), T(1), E(1) } }

InitMid ==
    /\ PlainVolume
    /\ MainIdle
    /\ input \in EntryLists(MaxEntries) \ { << >> }
    /\ output = 0
    /\ fpc = "segment"

\* steps 5) and 6) of splitDirectorySegment on the segment that holds input
SplitChoose ==
    /\ fpc = "segment"
    /\ LET w == SegmentOf(input, 1, 0, 1, 0, ImageDataStart)
       IN  output' = MidPos(w, EntryIdx(w))
    /\ fpc' = "chosen"
    /\ UNCHANGED << input, restOfState >>

NextMid == SplitChoose

SpecMid == InitMid /\ [][NextMid]_vars

\* the positions (0-based) of the Permanent and Tentative entries of a list
FilePositions(es) ==
    SelectSeq([k \in 1..Len(es) |-> k - 1],
              LAMBDA i : es[i + 1].kind \in {"P", "T"})

\* the middle entry of the Permanent/Tentative ones, or the raw midpoint
MiddleChoice(es) ==
    LET files == FilePositions(es)
    IN  IF files # << >> THEN files[Len(files) \div 2 + 1] ELSE Len(es) \div 2

\* C31: the split index is the middle (m/2) one of the segment's m
\* Permanent/Tentative entries, or the raw midpoint n/2 of its n entries when
\* it has none; when that choice is the last entry, the split index is the
\* entry just before the last one.
C31_SplitIndex ==
    (fpc = "chosen" /\ Len(input) >= 2) =>
        output = (IF MiddleChoice(input) = Len(input) - 1
                  THEN Len(input) - 2
                  ELSE MiddleChoice(input))


(***************************************************************************)
(* The word indices readDirectory reads, for every extraBytes value.       *)
(***************************************************************************)
\* a segment without sentinel: every word past the header is a Permanent
\* status, so only the fit test ends the entry loop
UnendedSeg(extraBytes) ==
    [j \in 0..(SEG_WORDS - 1) |->
        IF j = 0 THEN ImageSegments
        ELSE IF j = 2 THEN 1
        ELSE IF j = 3 THEN extraBytes
        ELSE IF j = 4 THEN ImageDataStart
        ELSE IF j = 1 THEN 0
        ELSE E_PERM]

\* the segment of an input: the entries << P, E >> and a sentinel, or no
\* sentinel at all
ScannedSeg(in) ==
    IF in.ended
    THEN SegmentOf(<< P(1), E(2) >>, 1, 0, 1, in.extraBytes, ImageDataStart)
    ELSE UnendedSeg(in.extraBytes)

InitScan ==
    /\ PlainVolume
    /\ MainIdle
    /\ input \in [extraBytes : 0..65535, ended : BOOLEAN]
    /\ output = {}
    /\ fpc = "segment"

\* a faulty loop condition: the entry only has to start inside the segment
EntryFits_StartOnly(w, idx) == idx < SEG_WORDS

\* the condition of the entry loop
EntryFits(w, idx) == idx + EntryWords(w) <= SEG_WORDS

\* the indices of words[] the entry loop of readDirectory reads from idx on
RECURSIVE ReadIndicesFrom(_, _)
ReadIndicesFrom(w, idx) ==
    IF ~EntryFits(w, idx) THEN {}
    ELSE IF StopsAt(w, idx) THEN {idx}
    ELSE {idx, idx + 1, idx + 2, idx + 3, idx + 4, idx + 6}
         \cup ReadIndicesFrom(w, U16(idx + EntryWords(w)))

\* the entry loop of readDirectory on one segment
ScanEntries ==
    /\ fpc = "segment"
    /\ output' = ReadIndicesFrom(ScannedSeg(input), HEADER_WORDS)
    /\ fpc' = "scanned"
    /\ UNCHANGED << input, restOfState >>

NextScan == ScanEntries

SpecScan == InitScan /\ [][NextScan]_vars

\* C32: whatever the segment holds and whatever the 16-bit extraBytes of its
\* header is, every index of words[] that the entry loop of readDirectory
\* reads lies in 0..511.
C32_ReadsInsideSegment ==
    fpc = "scanned" => output \subseteq 0..(SEG_WORDS - 1)

\* a segment without sentinel whose last entry ends with the last word of
\* the segment has been read through
C32_Witness ==
    /\ fpc = "scanned"
    /\ ~input.ended
    /\ \E idx \in output :
          /\ idx + BASE_ENTRY_WORDS + input.extraBytes \div 2 = SEG_WORDS
          /\ idx + 6 \in output


(***************************************************************************)
(* The word indices the directory update of copySingleToRt11 touches.      *)
(***************************************************************************)
\* the entries a segment has room for
Slots(extraBytes) == (SEG_WORDS - HEADER_WORDS) \div (BASE_ENTRY_WORDS + extraBytes \div 2)

\* count entries, Permanent but for the Empty one of 3 blocks at slot `at`
OneEmpty(count, at) == [m \in 1..count |-> IF m = at THEN E(3) ELSE P(1)]

\* the segment of an input: with a sentinel after the entries, or with
\* Permanent status words in every word after them (no sentinel, no zero)
UpdatedSeg(in) ==
    LET w == SegmentOf(OneEmpty(in.count, in.at), 1, 0, 1, in.extraBytes,
                       ImageDataStart)
        ew == BASE_ENTRY_WORDS + in.extraBytes \div 2
    IN  IF in.ended THEN w
        ELSE [j \in 0..(SEG_WORDS - 1) |->
                 IF j >= HEADER_WORDS + in.count * ew THEN E_PERM ELSE w[j]]

UpdateInputs ==
    { in \in [extraBytes : ImageExtraBytes, count : 1..Slots(0), at : 1..Slots(0),
              blocks : 1..3, ended : BOOLEAN] :
          /\ in.count <= Slots(in.extraBytes)
          /\ in.at <= in.count }

InitUpdate ==
    /\ PlainVolume
    /\ MainIdle
    /\ input \in UpdateInputs
    /\ output = {}
    /\ fpc = "segment"

\* the indices of words[] that copySingleToRt11 reads or writes from the
\* scan for the sentinel to the new sentinel
UpdateIndices(w, idx, blocksNeeded) ==
    LET ew == EntryWords(w)
        remaining == Remaining(w, idx, blocksNeeded)
        eosIdx == ScanEos(w, HEADER_WORDS)
        insertIdx == U16(idx + ew)
        newEosIdx == NewEosIdx(insertIdx, eosIdx, ew)
        scanned == { HEADER_WORDS + k * ew : k \in 0..((eosIdx - HEADER_WORDS) \div ew) }
                       \cap { j \in 0..eosIdx : j + ew <= SEG_WORDS }
        converted == idx..(idx + 6)
        shifted == IF insertIdx < eosIdx
                   THEN insertIdx..(eosIdx - 1) \cup (insertIdx + ew)..(eosIdx - 1 + ew)
                   ELSE {}
        inserted == insertIdx..(insertIdx + 6) \cup newEosIdx..(newEosIdx + ew - 1)
    IN  {idx + 4} \cup scanned \cup converted
            \cup (IF remaining > 0 THEN shifted \cup inserted ELSE {})

\* copySingleToRt11 from the read of the segment on: the pre-check, then
\* the update of words[]
UpdateEntry ==
    /\ fpc = "segment"
    /\ LET w == UpdatedSeg(input)
           idx == HEADER_WORDS + (input.at - 1) * EntryWords(w)
       IN  IF NeedsSplit(w, idx, input.blocks)
           THEN output' = {} /\ fpc' = "split"
           ELSE output' = UpdateIndices(w, idx, input.blocks) /\ fpc' = "updated"
    /\ UNCHANGED << input, restOfState >>

NextUpdate == UpdateEntry

SpecUpdate == InitUpdate /\ [][NextUpdate]_vars

\* C33: whatever the segment holds (a segment with no sentinel and no zero
\* status word included), every index of words[] that copySingleToRt11 reads
\* or writes while it looks for the sentinel, shifts the entries, inserts
\* the remainder and places the new sentinel lies in 0..511.
C33_UpdateInsideSegment ==
    fpc = "updated" => output \subseteq 0..(SEG_WORDS - 1)


(***************************************************************************)
(* decodeRad50 over every 16-bit word.                                     *)
(***************************************************************************)
\* the positions of RAD50_TABLE that decodeRad50(w) reads
Rad50Indices(w) == << w \div 1600, (w % 1600) \div 40, (w % 1600) % 40 >>

\* what a read of RAD50_TABLE[k] can give: the table's character, or for k
\* past the table whatever byte follows it (a space, a table character, or
\* some other character)
TableRead(k) == IF k < 40 THEN { RAD50_TABLE[k + 1] } ELSE { " ", "A", "?" }

InitWord ==
    /\ PlainVolume
    /\ MainIdle
    /\ input \in 0..65535
    /\ output = [at |-> << >>, text |-> << >>]
    /\ fpc = "word"

\* decodeRad50(input)
DecodeWord ==
    /\ fpc = "word"
    /\ LET at == Rad50Indices(input)
       IN  \E c1 \in TableRead(at[1]) : \E c2 \in TableRead(at[2]) :
           \E c3 \in TableRead(at[3]) :
               output' = [at |-> at, text |-> NoSpaces(<< c1, c2, c3 >>)]
    /\ fpc' = "decoded"
    /\ UNCHANGED << input, restOfState >>

NextWord == DecodeWord

SpecWord == InitWord /\ [][NextWord]_vars

\* C34: for every 16-bit word w, decodeRad50 reads the 40-entry table
\* RAD50_TABLE at positions 0..39 only.
C34_TableIndexInRange ==
    fpc = "decoded" => \A k \in 1..3 : output.at[k] \in 0..39


(***************************************************************************)
(* What a copy without split changes                                       *)
(***************************************************************************)
\* C35: a successful copySingleToRt11 that needs no split changes only the
\* data blocks start..start+N-1 of the chosen Empty region and the two blocks
\* of the segment of the chosen entry; the five header words of that segment
\* and every other block of the image are as before the call.
C35_CopyChangesOnlyItsBlocks ==
    (pc = "idle" /\ result = "copied" /\ nsplits = 0) =>
        /\ HasBit(dir0[emptyEntry.segNumber][emptyEntry.wordIndex], E_MPTY)
        /\ \A b \in DOMAIN data :
              b \notin emptyEntry.startBlock..(emptyEntry.startBlock + req.blocks - 1)
                  => data[b] = data0[b]
        /\ \A s \in DOMAIN dir : s # emptyEntry.segNumber => dir[s] = dir0[s]
        /\ \A j \in 0..(HEADER_WORDS - 1) :
              dir[emptyEntry.segNumber][j] = dir0[emptyEntry.segNumber][j]

\* a copy without split, into an entry of a segment other than the first,
\* that left a remainder: data blocks and directory blocks have changed
C35_Witness ==
    /\ pc = "idle"
    /\ result = "copied"
    /\ nsplits = 0
    /\ emptyEntry.segNumber > 1
    /\ req.blocks < emptyEntry.lengthBlocks
    /\ data # data0
    /\ dir[emptyEntry.segNumber] # dir0[emptyEntry.segNumber]


(***************************************************************************)
(* copy-to with noReplace, run twice for the same host file                *)
(***************************************************************************)
\* a host file name with a character outside the RAD50 alphabet
UnderscoreName == << "a", "_", "b", ".", "t", "x", "t" >>

\* the host files of the repeated copy: one block each, noReplace set
HostFiles ==
    { [name |-> n, blocks |-> 1, noReplace |-> TRUE] : n \in { NewName, UnderscoreName } }

\* the first run
CopyFirst ==
    /\ ncopies = 0
    /\ \E r \in HostFiles : \E dw \in SystemDates : StartCopy(r, dw)

\* the second run, for the same host file with the same options
CopyAgain ==
    /\ ncopies = 1
    /\ StartCopy(req, dateW)

NextTwice ==
    \/ CopyFirst
    \/ CopyAgain
    \/ CopyEnter
    \/ WriteData
    \/ BuildUpdate
    \/ Commit0
    \/ Commit1
    \/ SplitEnter
    \/ SplitOld0
    \/ SplitOld1
    \/ SplitNew0
    \/ SplitNew1
    \/ SplitOne0
    \/ SplitOne1
    \/ Retry

SpecTwice == Init /\ [][NextTwice]_vars

\* the Permanent entries of directory d whose first data block, in blocks,
\* was written by one of the runs
EntriesOfRuns(d, blocks) ==
    LET es == readDirectory(d, homeWord, totalBlocks)
    IN  { k \in 1..Len(es) :
            /\ es[k].permanent
            /\ es[k].startBlock \in DOMAIN blocks
            /\ \E n \in 1..2 : blocks[es[k].startBlock] = WrittenBy(n) }

\* C36: copy-to with noReplace run twice for the same host file: when the
\* first run has copied the file, the second run changes nothing in the
\* image and exactly one Permanent entry exists for the file, whatever the
\* host file name (names with characters outside the RAD50 alphabet too).
C36_SecondRunIdempotent ==
    (/\ ncopies = 2
     /\ pc = "idle"
     /\ req.noReplace
     /\ EntriesOfRuns(dir0, data0) # {}) =>
        /\ dir = dir0
        /\ data = data0
        /\ Cardinality(EntriesOfRuns(dir, data)) = 1

====
